---- MODULE Spec2Model ----
(***************************************************************************)
(* A model of mlbv-rs: the authorization state machine of session.rs with  *)
(* its token cache, the game selector of schedule.rs and the stream        *)
(* resolution of mediagateway/streams.rs.                                  *)
(***************************************************************************)
EXTENDS Integers, Sequences, FiniteSets, TLC

VARIABLES
    now,          \* the wall clock (Utc::now()), in seconds
    cache,        \* the content of the token cache file token.json
    session,      \* per invocation: the MlbSession (type state, tokens) and its position
    trace,        \* per invocation: what the invocation has read, sent and written
    token_in,     \* is_valid: the token it is asked about
    valid_out,    \* is_valid: its result
    team_games,   \* select_game: the games of the team on the day
    game_number,  \* select_game: the game number asked for, if any
    game_data,    \* select_game: its result, once it has returned
    pipe,         \* find_and_play_stream: its locals and its position
    plog,         \* find_and_play_stream: the steps it has taken, in order
    candidates,   \* find_best_feed: the content of the search results
    req_media,    \* find_best_feed: the media type asked for
    req_feed,     \* find_best_feed: the feed type asked for
    found,        \* find_best_feed: its result and the tier that gave it
    fetch,        \* fetch_schedule_by_date / _by_range: one call, its request and result
    team_query,   \* find_team_games: one call, its arguments and result
    cli,          \* Cli::to_mode: the parsed flags and the mode they give
    date_in,      \* GameDate::from_str: the string and the result
    gateway,      \* init_playback_session: the calls made and the requests sent
    run,          \* run: the mode of the invocation and what it has done
    recap         \* run, recap mode without a team: the day's games and the recaps played

authVars  == <<cache, session, trace>>
validVars == <<token_in, valid_out>>
selectVars == <<team_games, game_number, game_data>>
pipeVars  == <<pipe, plog>>
feedVars  == <<candidates, req_media, req_feed, found>>
moreVars  == <<fetch, team_query, cli, date_in, gateway, run, recap>>
mainVars  == <<now, authVars, validVars, selectVars, pipeVars, feedVars>>
butFetch     == <<team_query, cli, date_in, gateway, run, recap>>
butTeamQuery == <<fetch, cli, date_in, gateway, run, recap>>
butCli       == <<fetch, team_query, date_in, gateway, run, recap>>
butDateIn    == <<fetch, team_query, cli, gateway, run, recap>>
butGateway   == <<fetch, team_query, cli, date_in, run, recap>>
butRun       == <<fetch, team_query, cli, date_in, gateway, recap>>
butRecap     == <<fetch, team_query, cli, date_in, gateway, run>>
nonAuthVars == <<validVars, selectVars, pipeVars, feedVars, moreVars>>
vars      == <<now, cache, session, trace, validVars, selectVars, pipeVars, feedVars, moreVars>>

----------------------------------------------------------------------------
(* Option<T> is a set with at most one element. *)
None      == {}
Some(x)   == {x}
Unwrap(o) == CHOOSE x \in o : TRUE

(* The variables of the calls that are modelled one by one, while the call *)
(* is not looked at.                                                       *)
NewFetch ==
    [pc       |-> "idle",
     fn       |-> "none",
     requests |-> 0,
     dates    |-> None,
     error    |-> "none",
     result   |-> None]

FetchIdle     == fetch = NewFetch
TeamQueryIdle == team_query = None
CliIdle       == cli = None
DateInIdle    == date_in = None
NewGateway ==
    [pc       |-> "idle",
     calls    |-> 0,
     media_id |-> None,
     ids      |-> None,
     log      |-> <<>>]

GatewayIdle   == gateway = NewGateway
RunIdle       == run = None
RecapIdle     == recap = None

MoreIdle ==
    /\ FetchIdle
    /\ TeamQueryIdle
    /\ CliIdle
    /\ DateInIdle
    /\ GatewayIdle
    /\ RunIdle
    /\ RecapIdle


(* The prefixes of a sequence. *)
IsPrefix(s, t) == Len(s) <= Len(t) /\ \A i \in 1..Len(s) : s[i] = t[i]

----------------------------------------------------------------------------
(* Bounds of the model. *)
MaxTime   == 2     \* the clock runs from 0 to MaxTime
MaxWindow == 2     \* tokens live for BUFFER .. BUFFER + MaxWindow seconds
MaxRuns   == 2     \* invocations of the program, one after the other

(* Duration::seconds(60) of is_valid. *)
BUFFER == 60

Runs == 1..MaxRuns
Times == 0..MaxTime
ExpiresInValues == BUFFER..(BUFFER + MaxWindow)

----------------------------------------------------------------------------
(* OktaAuthResponse.  access_token and id_token are numbered by the        *)
(* invocation whose token exchange returned them (0: a token that was in   *)
(* the cache before the first invocation).                                 *)
OktaAuthResponse(id, ein, eat) ==
    [token_type   |-> "Bearer",
     expires_in   |-> ein,
     access_token |-> id,
     scope        |-> "openid profile email",
     id_token     |-> id,
     expires_at   |-> eat]

(* The token as the token endpoint returns it: no expires_at on the wire. *)
WireToken(id, ein) == OktaAuthResponse(id, ein, None)

(* The file: absent, text that is not a token, or the JSON of a token.     *)
NoFile  == [k |-> "absent"]
Garbage == [k |-> "garbage"]
JNull    == [null |-> TRUE, v |-> 0]
JTime(t) == [null |-> FALSE, v |-> t]

(* serde_json::to_string_pretty(self): Option<DateTime> is null or a string. *)
SerializeSkipExpiresAt(tok) ==
    [k            |-> "json",
     token_type   |-> tok.token_type,
     expires_in   |-> tok.expires_in,
     access_token |-> tok.access_token,
     scope        |-> tok.scope,
     id_token     |-> tok.id_token,
     expires_at   |-> JNull]

Serialize(tok) ==
    [k            |-> "json",
     token_type   |-> tok.token_type,
     expires_in   |-> tok.expires_in,
     access_token |-> tok.access_token,
     scope        |-> tok.scope,
     id_token     |-> tok.id_token,
     expires_at   |-> IF tok.expires_at = None THEN JNull
                      ELSE JTime(Unwrap(tok.expires_at))]

(* serde_json::from_str(&data) *)
Deserialize(file) ==
    [token_type   |-> file.token_type,
     expires_in   |-> file.expires_in,
     access_token |-> file.access_token,
     scope        |-> file.scope,
     id_token     |-> file.id_token,
     expires_at   |-> IF file.expires_at.null THEN None
                      ELSE Some(file.expires_at.v)]

(* OktaAuthResponse::load: Ok(None) without a file, Err on text that does  *)
(* not deserialize, Ok(Some(token)) otherwise.                             *)
(* load with a file that does not parse taken for no file *)
LoadUnreadableAsMiss(file) ==
    CASE file.k = "absent"  -> [err |-> FALSE, val |-> None]
      [] file.k = "garbage" -> [err |-> FALSE, val |-> None]
      [] OTHER              -> [err |-> FALSE, val |-> Some(Deserialize(file))]

Load(file) ==
    CASE file.k = "absent"  -> [err |-> FALSE, val |-> None]
      [] file.k = "garbage" -> [err |-> TRUE,  val |-> None]
      [] OTHER              -> [err |-> FALSE, val |-> Some(Deserialize(file))]

(* OktaAuthResponse::is_valid at the instant t. *)
IsValidLax(tok, t) ==
    /\ tok.expires_at # None
    /\ Unwrap(tok.expires_at) >= t + BUFFER

IsValid(tok, t) ==
    IF tok.expires_at # None
    THEN Unwrap(tok.expires_at) > t + BUFFER
    ELSE FALSE

(* authorize, lines 138-139: Some(cached_token) = load()? && is_valid() *)
CacheHitInverted(ld, t) == ld.val # None /\ ~IsValid(Unwrap(ld.val), t)

CacheHit(ld, t) == ld.val # None /\ IsValid(Unwrap(ld.val), t)

(* session.state.okta_tokens.expires_at = Some(Utc::now() + expires_in) *)
StampNothing(tok, t) == tok

Stamp(tok, t) == [tok EXCEPT !.expires_at = Some(t + tok.expires_in)]

----------------------------------------------------------------------------
(* The responses of the identity provider to the four requests. *)
AuthnOutcomes     == {"ok", "transport", "status", "parse"}
ClientIdOutcomes  == {"ok", "transport", "status", "parse", "client_id_not_found"}
OktaCodeOutcomes  == {"ok", "transport", "status", "parse", "code_not_found", "unescape"}
TokenOutcomes     == {"ok", "transport", "status", "parse"}
SaveOutcomes      == {"ok", "create_err", "write_err"}

RequestOrder == <<"authn", "client_id", "authorize", "token">>
StateOrder   == <<"Unauthenticated", "Authenticated", "OktaCodeReceived", "Authorized">>

Ended == {"ok", "err"}

NewSession ==
    [pc          |-> "idle",
     state       |-> "Unauthenticated",
     okta_tokens |-> None,
     error       |-> "none"]

NewTrace ==
    [started     |-> None,       \* when authorize was called
     cache0      |-> None,       \* the file as authorize found it
     reads       |-> 0,          \* reads of the file
     reqs        |-> <<>>,       \* the requests sent, in order
     resps       |-> <<>>,       \* their outcomes
     trail       |-> <<"Unauthenticated">>,  \* the type states passed
     wire        |-> None,       \* the token as the token exchange returned it
     computed_at |-> None,       \* when expires_at was computed
     written     |-> <<>>]       \* what was written to the file, in order

(* The files the first invocation may find. *)
InitFiles ==
    {NoFile, Garbage}
    \cup {Serialize(OktaAuthResponse(0, BUFFER + 1, eat)) :
            eat \in {None} \cup {Some(t) : t \in ExpiresInValues}}

----------------------------------------------------------------------------
(* A request sent by invocation r, with its outcome. *)
Sent(r, req, outcome) ==
    [trace[r] EXCEPT !.reqs = Append(@, req), !.resps = Append(@, outcome)]

Entered(tr, st) == [tr EXCEPT !.trail = Append(@, st)]

Failed(r, outcome) ==
    [session EXCEPT ![r].pc = "err", ![r].error = outcome]

(* authorize, lines 138-148: load the cache and return it if it is valid.  *)
(* ss and tt are the sessions and traces it starts from.                   *)
AuthorizeFrom(r, ss, tt) ==
    /\ session[r].pc = "idle"
    /\ LET ld == Load(cache)
           tr == [tt[r] EXCEPT !.started = Some(now),
                               !.cache0 = Some(cache),
                               !.reads = @ + 1]
       IN  IF ld.err
           THEN /\ session' = [ss EXCEPT ![r].pc = "err", ![r].error = "load"]
                /\ trace' = [tt EXCEPT ![r] = tr]
           ELSE IF CacheHit(ld, now)
           THEN /\ session' = [ss EXCEPT ![r].pc = "ok",
                                         ![r].state = "Authorized",
                                         ![r].okta_tokens = ld.val]
                /\ trace' = [tt EXCEPT ![r] = Entered(tr, "Authorized")]
           ELSE /\ session' = [ss EXCEPT ![r].pc = "authenticate"]
                /\ trace' = [tt EXCEPT ![r] = tr]
    /\ UNCHANGED <<now, cache, nonAuthVars>>

AuthorizeStart(r) == AuthorizeFrom(r, session, trace)

(* authenticate: POST /api/v1/authn *)
AuthenticateRetry(r) ==
    /\ session[r].pc = "authenticate"
    /\ session[r].state = "Unauthenticated"
    /\ Len(trace[r].reqs) < 2
    /\ \E o \in AuthnOutcomes :
         IF o = "ok"
         THEN /\ session' = [session EXCEPT ![r].pc = "fetch_client_id",
                                            ![r].state = "Authenticated"]
              /\ trace' = [trace EXCEPT ![r] = Entered(Sent(r, "authn", o), "Authenticated")]
         ELSE /\ session' = IF Len(trace[r].reqs) = 0 THEN session ELSE Failed(r, o)
              /\ trace' = [trace EXCEPT ![r] = Sent(r, "authn", o)]
    /\ UNCHANGED <<now, cache, nonAuthVars>>

Authenticate(r) ==
    /\ session[r].pc = "authenticate"
    /\ session[r].state = "Unauthenticated"
    /\ \E o \in AuthnOutcomes :
         IF o = "ok"
         THEN /\ session' = [session EXCEPT ![r].pc = "fetch_client_id",
                                            ![r].state = "Authenticated"]
              /\ trace' = [trace EXCEPT ![r] = Entered(Sent(r, "authn", o), "Authenticated")]
         ELSE /\ session' = Failed(r, o)
              /\ trace' = [trace EXCEPT ![r] = Sent(r, "authn", o)]
    /\ UNCHANGED <<now, cache, nonAuthVars>>

(* fetch_client_id: GET the mlb-okta.js asset and search it for the client id *)
FetchClientIdIgnoreError(r) ==
    /\ session[r].pc = "fetch_client_id"
    /\ session[r].state = "Authenticated"
    /\ \E o \in ClientIdOutcomes :
         /\ session' = [session EXCEPT ![r].pc = "fetch_okta_code"]
         /\ trace' = [trace EXCEPT ![r] = Sent(r, "client_id", o)]
    /\ UNCHANGED <<now, cache, nonAuthVars>>

FetchClientId(r) ==
    /\ session[r].pc = "fetch_client_id"
    /\ session[r].state = "Authenticated"
    /\ \E o \in ClientIdOutcomes :
         /\ session' = IF o = "ok"
                       THEN [session EXCEPT ![r].pc = "fetch_okta_code"]
                       ELSE Failed(r, o)
         /\ trace' = [trace EXCEPT ![r] = Sent(r, "client_id", o)]
    /\ UNCHANGED <<now, cache, nonAuthVars>>

(* fetch_okta_code after the client id: GET /authorize and search the code *)
FetchOktaCode(r) ==
    /\ session[r].pc = "fetch_okta_code"
    /\ session[r].state = "Authenticated"
    /\ \E o \in OktaCodeOutcomes :
         IF o = "ok"
         THEN /\ session' = [session EXCEPT ![r].pc = "exchange",
                                            ![r].state = "OktaCodeReceived"]
              /\ trace' = [trace EXCEPT
                             ![r] = Entered(Sent(r, "authorize", o), "OktaCodeReceived")]
         ELSE /\ session' = Failed(r, o)
              /\ trace' = [trace EXCEPT ![r] = Sent(r, "authorize", o)]
    /\ UNCHANGED <<now, cache, nonAuthVars>>

(* exchange_code_for_token: POST /token *)
ExchangeCodeForToken(r) ==
    /\ session[r].pc = "exchange"
    /\ session[r].state = "OktaCodeReceived"
    /\ \E o \in TokenOutcomes :
         IF o = "ok"
         THEN \E ein \in ExpiresInValues :
              /\ session' = [session EXCEPT ![r].pc = "save",
                                            ![r].state = "Authorized",
                                            ![r].okta_tokens = Some(WireToken(r, ein))]
              /\ trace' = [trace EXCEPT
                             ![r] = [Entered(Sent(r, "token", o), "Authorized")
                                       EXCEPT !.wire = Some(WireToken(r, ein))]]
         ELSE /\ session' = Failed(r, o)
              /\ trace' = [trace EXCEPT ![r] = Sent(r, "token", o)]
    /\ UNCHANGED <<now, cache, nonAuthVars>>

(* authorize, lines 154-157: compute expires_at, save the token, return.   *)
(* save fails before it touches the file (create_dir_all, File::create) or *)
(* while writing, which leaves a truncated file.                           *)
AuthorizeNoSave(r) ==
    /\ session[r].pc = "save"
    /\ session' = [session EXCEPT
                     ![r].pc = "ok",
                     ![r].okta_tokens = Some(Stamp(Unwrap(session[r].okta_tokens), now))]
    /\ trace' = [trace EXCEPT ![r].computed_at = Some(now)]
    /\ UNCHANGED <<now, cache, nonAuthVars>>

AuthorizeSave(r) ==
    /\ session[r].pc = "save"
    /\ LET tok == Stamp(Unwrap(session[r].okta_tokens), now)
           tr  == [trace[r] EXCEPT !.computed_at = Some(now)]
       IN  \E o \in SaveOutcomes :
             CASE o = "ok" ->
                    /\ cache' = Serialize(tok)
                    /\ session' = [session EXCEPT ![r].pc = "ok",
                                                  ![r].okta_tokens = Some(tok)]
                    /\ trace' = [trace EXCEPT
                                   ![r] = [tr EXCEPT !.written = Append(@, Serialize(tok))]]
               [] o = "create_err" ->
                    /\ cache' = cache
                    /\ session' = [session EXCEPT ![r].pc = "err",
                                                  ![r].error = "save",
                                                  ![r].okta_tokens = Some(tok)]
                    /\ trace' = [trace EXCEPT ![r] = tr]
               [] o = "write_err" ->
                    /\ cache' = Garbage
                    /\ session' = [session EXCEPT ![r].pc = "err",
                                                  ![r].error = "save",
                                                  ![r].okta_tokens = Some(tok)]
                    /\ trace' = [trace EXCEPT
                                   ![r] = [tr EXCEPT !.written = Append(@, Garbage)]]
    /\ UNCHANGED <<now, nonAuthVars>>

(* The program is invoked again only after the previous invocation ended.  *)
(* The processes of the invocations before the previous one are gone, and  *)
(* what they did is no longer looked at.                                   *)
Exited == [NewSession EXCEPT !.pc = "exited"]

Invoke(r) ==
    /\ IF r = 1 THEN TRUE ELSE session[r - 1].pc \in Ended
    /\ AuthorizeFrom(r,
                     [q \in Runs |-> IF q < r - 1 THEN Exited ELSE session[q]],
                     [q \in Runs |-> IF q < r - 1 THEN NewTrace ELSE trace[q]])

----------------------------------------------------------------------------
(* GameData, as far as the selection reads it.  game_pk is the place of the *)
(* game in the day's schedule.                                              *)
MaxGames      == 3     \* games of one team on one day
MaxGameNumber == 3     \* game_number is a u8; 1 and 2 are the regular values

GameNumbers == 1..MaxGameNumber
GameStates  == {"Preview", "Live", "Final"}

GameData(pk, n, st, home, away) ==
    [game_pk             |-> pk,
     game_number         |-> n,
     abstract_game_state |-> st,
     home                |-> home,
     away                |-> away]

(* The lists of at most maxlen games with the given numbers, states and    *)
(* (home, away) pairs.                                                     *)
GameLists(maxlen, numbers, states, matchups) ==
    UNION {{[i \in 1..len |-> GameData(i, f[i][1], f[i][2], f[i][3][1], f[i][3][2])] :
              f \in [1..len -> numbers \X states \X matchups]} :
           len \in 0..maxlen}

Ok(g)  == [ok |-> TRUE,  game |-> Some(g), error |-> "none"]
Err(e) == [ok |-> FALSE, game |-> None,    error |-> e]

(* iter().position(pred): the first index of the set of matching indices *)
First(S) == CHOOSE i \in S : \A j \in S : i <= j

(* the indices of the games with the given number, and of the Live games *)
Numbered(games, n) == {i \in 1..Len(games) : games[i].game_number = n}
Live(games) == {i \in 1..Len(games) : games[i].abstract_game_state = "Live"}

select_game_prefers_game_one(games, number) ==
    LET ones == Numbered(games, 1)
    IN  CASE Len(games) = 0 -> Err("NoGameAvailable")
          [] Len(games) = 1 -> Ok(games[1])
          [] OTHER -> IF ones # {} THEN Ok(games[First(ones)]) ELSE Ok(games[1])

select_game_takes_first(games, number) ==
    LET live == Live(games)
    IN  CASE Len(games) = 0 -> Err("NoGameAvailable")
          [] Len(games) = 1 -> Ok(games[1])
          [] OTHER -> IF live # {} THEN Ok(games[First(live)]) ELSE Ok(games[1])

select_game_any_number(games, number) ==
    CASE Len(games) = 0 -> Err("NoGameAvailable")
      [] Len(games) = 1 -> Ok(games[1])
      [] OTHER ->
           IF number # None
           THEN LET byNumb == Numbered(games, Unwrap(number))
                IN  IF byNumb # {} THEN Ok(games[First(byNumb)])
                    ELSE Err("GameNumberNotFound")
           ELSE Ok(games[1])

select_game_live_over_number(games, number) ==
    LET live == Live(games)
    IN  CASE Len(games) = 0 -> Err("NoGameAvailable")
          [] Len(games) = 1 -> Ok(games[1])
          [] OTHER ->
               IF live # {} THEN Ok(games[First(live)])
               ELSE IF number # None /\ Numbered(games, Unwrap(number)) # {}
               THEN Ok(games[First(Numbered(games, Unwrap(number)))])
               ELSE Ok(games[1])

select_game_single_by_number(games, number) ==
    CASE Len(games) = 0 -> Err("NoGameAvailable")
      [] OTHER ->
           IF number # None
           THEN LET n      == Unwrap(number)
                    byNumb == Numbered(games, n)
                IN  IF n # 1 /\ n # 2 THEN Err("InvalidGameNumber")
                    ELSE IF byNumb # {} THEN Ok(games[First(byNumb)])
                    ELSE Err("GameNumberNotFound")
           ELSE Ok(games[1])

select_game_number_before_length(games, number) ==
    IF number # None /\ Unwrap(number) # 1 /\ Unwrap(number) # 2
    THEN Err("InvalidGameNumber")
    ELSE CASE Len(games) = 0 -> Err("NoGameAvailable")
           [] OTHER -> Ok(games[1])

(* schedule.rs select_game *)
select_game(games, number) ==
    CASE Len(games) = 0 -> Err("NoGameAvailable")
      [] Len(games) = 1 -> Ok(games[Len(games)])
      [] OTHER ->
           IF number # None
           THEN LET n      == Unwrap(number)
                    byNumb == Numbered(games, n)
                IN  IF n # 1 /\ n # 2 THEN Err("InvalidGameNumber")
                    ELSE IF byNumb # {} THEN Ok(games[First(byNumb)])
                    ELSE Err("GameNumberNotFound")
           ELSE LET live == Live(games)
                    ones == Numbered(games, 1)
                IN  IF live # {} THEN Ok(games[First(live)])
                    ELSE IF ones # {} THEN Ok(games[First(ones)])
                    ELSE Ok(games[1])

(* The variables of select_game while it is not looked at. *)
SelectIdle ==
    /\ team_games = <<>>
    /\ game_number = None
    /\ game_data = None

ValidIdle ==
    /\ token_in = WireToken(0, BUFFER)
    /\ valid_out = None

AuthIdle ==
    /\ cache = NoFile
    /\ session = [r \in Runs |-> NewSession]
    /\ trace = [r \in Runs |-> NewTrace]


----------------------------------------------------------------------------
(* The schedule service and the media gateway, as far as the stream          *)
(* resolution reads them.                                                    *)
MaxDayGames == 2     \* games on the day's schedule
MaxStreams  == 1     \* candidates of a content search, in a stream resolution
MaxCandidates == 2   \* candidates of a content search, for find_best_feed alone

Teams     == {"Toronto Blue Jays", "Washington Nationals", "Seattle Mariners"}
Matchups  == {<<"Washington Nationals", "Toronto Blue Jays">>,
              <<"Toronto Blue Jays", "Washington Nationals">>}
FeedTypes   == {"HOME", "AWAY", "NETWORK"}
MediaTypes  == {"AUDIO", "VIDEO"}
MediaStates == {"ON", "OFF"}
Languages   == {"en", "es"}

DaySchedule(games) == [games |-> games]

StreamData(id, f, l, st, m) ==
    [media_id    |-> id,
     feed_type   |-> f,
     language    |-> l,
     media_state |-> [state |-> st, media_type |-> m]]

(* The candidate lists of at most maxlen streams; media_id is the place in *)
(* the response.                                                           *)
StreamLists(maxlen, languages) ==
    UNION {{[i \in 1..len |-> StreamData(i, f[i][1], f[i][2], f[i][3], f[i][4])] :
              f \in [1..len -> FeedTypes \X languages \X MediaStates \X MediaTypes]} :
           len \in 0..maxlen}

fetch_schedule_by_date_takes_last(dates) ==
    CASE Len(dates) = 0 -> [err |-> FALSE, val |-> None]
      [] OTHER          -> [err |-> FALSE, val |-> Some(dates[Len(dates)])]

(* fetch_schedule_by_date on the dates of the response *)
fetch_schedule_by_date(dates) ==
    CASE Len(dates) = 0 -> [err |-> FALSE, val |-> None]
      [] Len(dates) = 1 -> [err |-> FALSE, val |-> Some(dates[Len(dates)])]
      [] OTHER          -> [err |-> TRUE,  val |-> None]

(* fetch_schedule_by_range on the dates of the response *)
fetch_schedule_by_range(dates) ==
    CASE Len(dates) = 0 -> [err |-> FALSE, val |-> None]
      [] OTHER          -> [err |-> FALSE, val |-> Some(dates)]

find_team_games_home_only(day, team) ==
    LET IsHomeGame(game) == game.home = team
        tg == SelectSeq(day.games, IsHomeGame)
    IN  IF Len(tg) = 0 THEN None ELSE Some(tg)

(* DaySchedule::find_team_games *)
find_team_games(day, team) ==
    LET IsTeamGame(game) == game.home = team \/ game.away = team
        tg == SelectSeq(day.games, IsTeamGame)
    IN  IF Len(tg) = 0 THEN None ELSE Some(tg)

(* iter().find(pred), S being the indices at which pred holds *)
Find(seq, S) == IF S = {} THEN None ELSE Some(seq[First(S)])

(* ContentSearchResults::select_feed *)
select_feed(content, media_type, feed_type) ==
    Find(content, {i \in 1..Len(content) :
                     /\ content[i].feed_type = feed_type
                     /\ content[i].media_state.media_type = media_type
                     /\ content[i].media_state.state # "OFF"
                     /\ content[i].language = "en"})

search_prefs_without_national(media_type, feed_type) ==
    << <<media_type, feed_type>>,
       <<"AUDIO", feed_type>> >>

search_prefs_without_audio(media_type, feed_type) ==
    << <<media_type, feed_type>>,
       <<media_type, "NETWORK">> >>

search_prefs_audio_first(media_type, feed_type) ==
    << <<media_type, feed_type>>,
       <<"AUDIO", feed_type>>,
       <<media_type, "NETWORK">> >>

(* find_best_feed: the combinations it searches for, in order *)
search_prefs(media_type, feed_type) ==
    << <<media_type, feed_type>>,
       <<media_type, "NETWORK">>,
       <<"AUDIO", feed_type>> >>

find_best_feed_first_active(content, media_type, feed_type) ==
    Find(content, {i \in 1..Len(content) : content[i].media_state.state # "OFF"})

find_best_feed_no_last_resort(content, media_type, feed_type) ==
    LET prefs == search_prefs(media_type, feed_type)
        hits  == {i \in 1..Len(prefs) : select_feed(content, prefs[i][1], prefs[i][2]) # None}
    IN  IF hits # {}
        THEN select_feed(content, prefs[First(hits)][1], prefs[First(hits)][2])
        ELSE None

(* ContentSearchResults::find_best_feed *)
find_best_feed(content, media_type, feed_type) ==
    LET prefs == search_prefs(media_type, feed_type)
        hits  == {i \in 1..Len(prefs) : select_feed(content, prefs[i][1], prefs[i][2]) # None}
    IN  IF hits # {}
        THEN select_feed(content, prefs[First(hits)][1], prefs[First(hits)][2])
        ELSE Find(content, {i \in 1..Len(content) : content[i].media_state.state # "OFF"})

(* find_best_feed: the place in the search order of the combination whose  *)
(* message it logs when it returns, 4 for the last resort's warning, 0     *)
(* when it returns nothing.                                                *)
feed_tier(content, media_type, feed_type) ==
    LET prefs == search_prefs(media_type, feed_type)
        hits  == {i \in 1..Len(prefs) : select_feed(content, prefs[i][1], prefs[i][2]) # None}
    IN  IF hits # {} THEN First(hits)
        ELSE IF \E i \in 1..Len(content) : content[i].media_state.state # "OFF" THEN 4
        ELSE 0

(* The variables of find_best_feed while it is not looked at. *)
FeedIdle ==
    /\ candidates = <<>>
    /\ req_media = "VIDEO"
    /\ req_feed = "HOME"
    /\ found = None

default_feed_type_home(pref, game, team) ==
    IF pref # None THEN Unwrap(pref) ELSE "HOME"

(* feed_type.unwrap_or_else: the team's side in the selected game *)
default_feed_type(pref, game, team) ==
    IF pref # None THEN Unwrap(pref)
    ELSE IF game.home = team THEN "HOME" ELSE "AWAY"

HttpOutcomes   == {"ok", "transport", "status", "parse"}
PlayerOutcomes == {"ok", "no_player", "spawn", "exit_status"}

NewPipe ==
    [pc         |-> "schedule",
     team       |-> None,
     team_games |-> None,
     game_data  |-> None,
     feed_pref  |-> None,
     feed_type  |-> None,
     streams    |-> None,
     media_type |-> None,
     asked_feed |-> None,
     stream     |-> None,
     ids        |-> None,
     url        |-> None,
     error      |-> "none"]

PipeIdle ==
    /\ pipe = NewPipe
    /\ plog = <<>>

(* One step of the resolution: its name, how it ended, the type state of   *)
(* the session that took it and the bearer token it sent.                  *)
Step(name, outcome) ==
    [step     |-> name,
     outcome  |-> outcome,
     state    |-> session[1].state,
     bearer   |-> {tok.access_token : tok \in session[1].okta_tokens}]

(* The locals that the rest of the function no longer reads are dropped. *)
Past(p, fields) == [f \in DOMAIN p |-> IF f \in fields THEN None ELSE p[f]]

ReturnedAsError(result) == [pipe EXCEPT !.pc = "err", !.error = "no_data"]

Returned(result)  == [pipe EXCEPT !.pc = result]
Aborted(error)    == [pipe EXCEPT !.pc = "err", !.error = error]

(* find_and_play_stream, lines 259-266, on the session authorize returned: *)
(* the schedule of the date, and in it the games of the team.              *)
FetchSchedule ==
    /\ session[1].pc = "ok"
    /\ session[1].state = "Authorized"
    /\ pipe.pc = "schedule"
    /\ \E o \in HttpOutcomes, team \in Teams :
         IF o # "ok"
         THEN /\ pipe' = [Aborted(o) EXCEPT !.team = Some(team)]
              /\ plog' = Append(plog, Step("schedule", o))
         ELSE \E dates \in {<<>>, <<DaySchedule(<<>>), DaySchedule(<<>>)>>}
                       \cup {<<DaySchedule(gs)>> :
                               gs \in GameLists(MaxDayGames, 1..2, {"Live", "Final"}, Matchups)} :
              LET day == fetch_schedule_by_date(dates)
                  tg  == IF day.val = None THEN None
                         ELSE find_team_games(Unwrap(day.val), team)
              IN  IF day.err
                  THEN /\ pipe' = [Aborted("UnexpectedApiShape") EXCEPT !.team = Some(team)]
                       /\ plog' = Append(plog, Step("schedule", "UnexpectedApiShape"))
                  ELSE IF tg = None
                  THEN /\ pipe' = [Returned("done") EXCEPT !.team = Some(team)]
                       /\ plog' = Append(plog, Step("schedule",
                                   IF day.val = None THEN "no_schedule" ELSE "no_games"))
                  ELSE /\ pipe' = [pipe EXCEPT !.pc = "select_game",
                                               !.team = Some(team),
                                               !.team_games = tg]
                       /\ plog' = Append(plog, Step("schedule", "ok"))
    /\ UNCHANGED <<now, authVars, validVars, selectVars, feedVars, moreVars>>

(* lines 269-276: one game of the team's games, and the feed type *)
SelectGameAndFeedType ==
    /\ pipe.pc = "select_game"
    /\ \E number \in {None, Some(1), Some(2), Some(3)},
          pref \in {None} \cup {Some(f) : f \in FeedTypes} :
         LET res == select_game(Unwrap(pipe.team_games), number)
         IN  IF ~res.ok
             THEN /\ pipe' = [Aborted(res.error) EXCEPT !.team_games = None]
                  /\ plog' = Append(plog, Step("select_game", res.error))
             ELSE /\ pipe' = [pipe EXCEPT
                                !.pc = "content_search",
                                !.team_games = None,
                                !.game_data = res.game,
                                !.feed_pref = pref,
                                !.feed_type = Some(default_feed_type(
                                    pref, Unwrap(res.game), Unwrap(pipe.team)))]
                  /\ plog' = Append(plog, Step("select_game", "ok"))
    /\ UNCHANGED <<now, authVars, validVars, selectVars, feedVars, moreVars>>

(* fetch_available_feeds: the contentSearch request *)
FetchAvailableFeedsIgnoreError ==
    /\ session[1].state = "Authorized"
    /\ pipe.pc = "content_search"
    /\ \E o \in HttpOutcomes :
         /\ pipe' = [pipe EXCEPT !.pc = "find_best_feed", !.streams = Some(<<>>)]
         /\ plog' = Append(plog, Step("contentSearch", o))
    /\ UNCHANGED <<now, authVars, validVars, selectVars, feedVars, moreVars>>

FetchAvailableFeeds ==
    /\ session[1].state = "Authorized"
    /\ pipe.pc = "content_search"
    /\ \E o \in HttpOutcomes :
         IF o # "ok"
         THEN /\ pipe' = Aborted(o)
              /\ plog' = Append(plog, Step("contentSearch", o))
         ELSE \E content \in StreamLists(MaxStreams, {"en"}) :
              /\ pipe' = [Past(pipe, {"team", "game_data", "feed_pref"})
                            EXCEPT !.pc = "find_best_feed", !.streams = Some(content)]
              /\ plog' = Append(plog, Step("contentSearch", "ok"))
    /\ UNCHANGED <<now, authVars, validVars, selectVars, feedVars, moreVars>>

(* lines 280-283: the feed to play, or nothing to play *)
FindBestFeed ==
    /\ pipe.pc = "find_best_feed"
    /\ \E media_type \in MediaTypes :
         LET best == find_best_feed(Unwrap(pipe.streams), media_type, Unwrap(pipe.feed_type))
         IN  IF best = None
             THEN /\ pipe' = [Returned("done") EXCEPT !.media_type = Some(media_type),
                                                     !.asked_feed = pipe.feed_type]
                  /\ plog' = Append(plog, Step("find_best_feed", "no_streams"))
             ELSE /\ pipe' = [Past(pipe, {"streams"})
                                EXCEPT !.pc = "init_session",
                                       !.media_type = Some(media_type),
                                       !.asked_feed = pipe.feed_type,
                                       !.stream = best]
                  /\ plog' = Append(plog, Step("find_best_feed", "ok"))
    /\ UNCHANGED <<now, authVars, validVars, selectVars, feedVars, moreVars>>

(* init_media_session: the initSession request, which answers with a fresh *)
(* session id and device id                                                *)
InitMediaSession ==
    /\ session[1].state = "Authorized"
    /\ pipe.pc = "init_session"
    /\ \E o \in HttpOutcomes :
         IF o # "ok"
         THEN /\ pipe' = Aborted(o)
              /\ plog' = Append(plog, Step("initSession", o))
         ELSE LET k == 1 + Cardinality({i \in 1..Len(plog) : plog[i].step = "initSession"})
              IN  /\ pipe' = [pipe EXCEPT !.pc = "init_playback_session",
                                          !.ids = Some([session_id |-> k, device_id |-> k])]
                  /\ plog' = Append(plog, Step("initSession", "ok"))
    /\ UNCHANGED <<now, authVars, validVars, selectVars, feedVars, moreVars>>

(* init_playback_session after init_media_session: the initPlaybackSession *)
(* request for the media id of the feed                                     *)
InitPlaybackSession ==
    /\ session[1].state = "Authorized"
    /\ pipe.pc = "init_playback_session"
    /\ \E o \in HttpOutcomes :
         IF o # "ok"
         THEN /\ pipe' = Aborted(o)
              /\ plog' = Append(plog, Step("initPlaybackSession", o))
         ELSE /\ pipe' = [pipe EXCEPT !.pc = "play",
                                      !.url = Some(Unwrap(pipe.stream).media_id)]
              /\ plog' = Append(plog, Step("initPlaybackSession", "ok"))
    /\ UNCHANGED <<now, authVars, validVars, selectVars, feedVars, moreVars>>

(* player::play_stream_url *)
PlayStreamUrl ==
    /\ pipe.pc = "play"
    /\ \E o \in PlayerOutcomes :
         /\ pipe' = IF o = "ok" THEN Returned("done") ELSE Aborted(o)
         /\ plog' = Append(plog, Step("play", o))
    /\ UNCHANGED <<now, authVars, validVars, selectVars, feedVars, moreVars>>

(* One invocation in the stream mode: authorize, then find_and_play_stream. *)
InitPipe ==
    /\ now = 0
    /\ cache \in {NoFile, Garbage,
                  Serialize(OktaAuthResponse(0, BUFFER + 1, Some(BUFFER + 1)))}
    /\ session = [r \in Runs |-> NewSession]
    /\ trace = [r \in Runs |-> NewTrace]
    /\ ValidIdle
    /\ SelectIdle
    /\ PipeIdle
    /\ FeedIdle
    /\ MoreIdle

NextPipe ==
    \/ Invoke(1)
    \/ Authenticate(1)
    \/ FetchClientId(1)
    \/ FetchOktaCode(1)
    \/ ExchangeCodeForToken(1)
    \/ AuthorizeSave(1)
    \/ FetchSchedule
    \/ SelectGameAndFeedType
    \/ FetchAvailableFeeds
    \/ FindBestFeed
    \/ InitMediaSession
    \/ InitPlaybackSession
    \/ PlayStreamUrl

SpecPipe == InitPipe /\ [][NextPipe]_vars

(* select_game on its own. *)
SelectGame ==
    /\ game_data = None
    /\ game_data' = Some(select_game(team_games, game_number))
    /\ UNCHANGED <<now, authVars, validVars, team_games, game_number, pipeVars, feedVars, moreVars>>

InitSelect ==
    /\ team_games \in GameLists(MaxGames, GameNumbers, GameStates,
                                {<<"Washington Nationals", "Toronto Blue Jays">>})
    /\ game_number \in {None} \cup {Some(n) : n \in 0..MaxGameNumber}
    /\ game_data = None
    /\ now = 0
    /\ AuthIdle
    /\ ValidIdle
    /\ PipeIdle
    /\ FeedIdle
    /\ MoreIdle

NextSelect == SelectGame

SpecSelect == InitSelect /\ [][NextSelect]_vars

(* find_best_feed on its own: one call on any search results and request. *)
FindBestFeedCall ==
    /\ found = None
    /\ found' = Some([stream |-> find_best_feed(candidates, req_media, req_feed),
                      tier   |-> feed_tier(candidates, req_media, req_feed)])
    /\ UNCHANGED <<now, authVars, validVars, selectVars, pipeVars,
                   candidates, req_media, req_feed, moreVars>>

InitFeed ==
    /\ candidates \in StreamLists(MaxCandidates, Languages)
    /\ req_media \in MediaTypes
    /\ req_feed \in FeedTypes
    /\ found = None
    /\ now = 0
    /\ AuthIdle
    /\ ValidIdle
    /\ SelectIdle
    /\ PipeIdle
    /\ MoreIdle

NextFeed == FindBestFeedCall

SpecFeed == InitFeed /\ [][NextFeed]_vars

(* Time passes. *)
Tick ==
    /\ now < MaxTime
    /\ now' = now + 1
    /\ UNCHANGED <<authVars, nonAuthVars>>

InitAuth ==
    /\ now = 0
    /\ cache \in InitFiles
    /\ session = [r \in Runs |-> NewSession]
    /\ trace = [r \in Runs |-> NewTrace]
    /\ ValidIdle
    /\ SelectIdle
    /\ PipeIdle
    /\ FeedIdle
    /\ MoreIdle

NextAuth ==
    \/ Tick
    \/ \E r \in Runs : Invoke(r)
    \/ \E r \in Runs : Authenticate(r)
    \/ \E r \in Runs : FetchClientId(r)
    \/ \E r \in Runs : FetchOktaCode(r)
    \/ \E r \in Runs : ExchangeCodeForToken(r)
    \/ \E r \in Runs : AuthorizeSave(r)

Spec == InitAuth /\ [][NextAuth]_vars

----------------------------------------------------------------------------
(* is_valid on its own: any token, any instant. *)
IsValidCall ==
    /\ valid_out = None
    /\ valid_out' = Some(IsValid(token_in, now))
    /\ UNCHANGED <<now, authVars, token_in, selectVars, pipeVars, feedVars, moreVars>>

InitIsValid ==
    /\ now \in Times
    /\ token_in \in {OktaAuthResponse(0, BUFFER, eat) :
                       eat \in {None} \cup {Some(t) : t \in 0..(BUFFER + MaxTime + 1)}}
    /\ valid_out = None
    /\ AuthIdle
    /\ SelectIdle
    /\ PipeIdle
    /\ FeedIdle
    /\ MoreIdle

NextIsValid == IsValidCall

SpecIsValid == InitIsValid /\ [][NextIsValid]_vars

----------------------------------------------------------------------------
(* fetch_schedule_by_date and fetch_schedule_by_range on their own: one   *)
(* call, the schedule request it makes and the match on the response.     *)
MaxDates == 3     \* date entries of a schedule response

ResponseDays ==
    {DaySchedule(<<>>),
     DaySchedule(<<GameData(1, 1, "Final", "Toronto Blue Jays", "Washington Nationals")>>),
     DaySchedule(<<GameData(1, 1, "Final", "Seattle Mariners", "Toronto Blue Jays"),
                   GameData(2, 2, "Preview", "Seattle Mariners", "Toronto Blue Jays")>>)}

ResponseDates ==
    UNION {[1..len -> ResponseDays] : len \in 0..MaxDates}

FetchCall ==
    /\ fetch.pc = "idle"
    /\ \E fn \in {"fetch_schedule_by_date", "fetch_schedule_by_range"} :
         fetch' = [fetch EXCEPT !.pc = "request", !.fn = fn]
    /\ UNCHANGED <<mainVars, butFetch>>

(* make_schedule_request: the GET, its status and the parse of its body *)
make_schedule_request ==
    /\ fetch.pc = "request"
    /\ \E o \in HttpOutcomes :
         IF o # "ok"
         THEN fetch' = [fetch EXCEPT !.pc = "done",
                                     !.requests = fetch.requests + 1,
                                     !.error = o]
         ELSE \E dates \in ResponseDates :
                fetch' = [fetch EXCEPT !.pc = "match",
                                       !.requests = fetch.requests + 1,
                                       !.dates = Some(dates)]
    /\ UNCHANGED <<mainVars, butFetch>>

(* match dates.len() *)
FetchMatch ==
    /\ fetch.pc = "match"
    /\ LET res == IF fetch.fn = "fetch_schedule_by_date"
                  THEN fetch_schedule_by_date(Unwrap(fetch.dates))
                  ELSE fetch_schedule_by_range(Unwrap(fetch.dates))
       IN  fetch' = [fetch EXCEPT !.pc = "done",
                                  !.error = IF res.err THEN "UnexpectedApiShape" ELSE "none",
                                  !.result = res.val]
    /\ UNCHANGED <<mainVars, butFetch>>

InitFetch ==
    /\ fetch = NewFetch
    /\ now = 0
    /\ AuthIdle
    /\ ValidIdle
    /\ SelectIdle
    /\ PipeIdle
    /\ FeedIdle
    /\ TeamQueryIdle
    /\ CliIdle
    /\ DateInIdle
    /\ GatewayIdle
    /\ RunIdle
    /\ RecapIdle

NextFetch ==
    \/ FetchCall
    \/ make_schedule_request
    \/ FetchMatch

SpecFetch == InitFetch /\ [][NextFetch]_vars

----------------------------------------------------------------------------
(* find_team_games on its own: any day's schedule, any team. *)
AllMatchups == {m \in Teams \X Teams : m[1] # m[2]}

FindTeamGamesCall ==
    /\ team_query # None
    /\ Unwrap(team_query).out = None
    /\ LET q == Unwrap(team_query)
       IN  team_query' = Some([q EXCEPT !.out = Some(find_team_games(q.day, q.team))])
    /\ UNCHANGED <<mainVars, butTeamQuery>>

InitTeamGames ==
    /\ team_query \in {Some([day |-> DaySchedule(gs), team |-> t, out |-> None]) :
                         gs \in GameLists(MaxDayGames, 1..2, {"Final"}, AllMatchups),
                         t \in Teams}
    /\ now = 0
    /\ AuthIdle
    /\ ValidIdle
    /\ SelectIdle
    /\ PipeIdle
    /\ FeedIdle
    /\ FetchIdle
    /\ CliIdle
    /\ DateInIdle
    /\ GatewayIdle
    /\ RunIdle
    /\ RecapIdle

NextTeamGames == FindTeamGamesCall

SpecTeamGames == InitTeamGames /\ [][NextTeamGames]_vars

----------------------------------------------------------------------------
(* The rest of the model while a single call is looked at. *)
MainIdle ==
    /\ now = 0
    /\ AuthIdle
    /\ ValidIdle
    /\ SelectIdle
    /\ PipeIdle
    /\ FeedIdle

----------------------------------------------------------------------------
(* Cli::to_mode on its own.  Dates are counted in days; Today is           *)
(* Local::now().date_naive().                                              *)
Today == 10

TeamCodes == {"tor", "wsh"}

(* The flags as clap hands them over: at most one of --date, --days,       *)
(* --tomorrow and --yesterday (date_group), --days not with --team,        *)
(* --condensed only with --team and not with --recap.                      *)
Flags ==
    [init        : BOOLEAN,
     team        : {None} \cup {Some(t) : t \in TeamCodes},
     date        : {None, Some(Today - 3), Some(Today + 4)},
     tomorrow    : BOOLEAN,
     yesterday   : BOOLEAN,
     days        : {None, Some(-2), Some(3)},
     feed        : {None, Some("AWAY")},
     audio       : BOOLEAN,
     condensed   : BOOLEAN,
     recap       : BOOLEAN,
     game_number : {None, Some(2)}]

Accepted(c) ==
    /\ Cardinality({g \in {"date", "days", "tomorrow", "yesterday"} :
                      CASE g = "date"      -> c.date # None
                        [] g = "days"      -> c.days # None
                        [] g = "tomorrow"  -> c.tomorrow
                        [] g = "yesterday" -> c.yesterday}) <= 1
    /\ ~(c.days # None /\ c.team # None)
    /\ c.condensed => (c.team # None /\ ~c.recap)

Min(a, b) == IF a <= b THEN a ELSE b
Max(a, b) == IF a >= b THEN a ELSE b

to_mode_team_before_recap(c) ==
    IF c.init THEN [mode |-> "Init"]
    ELSE IF c.team # None
    THEN [mode |-> "PlayStream", team_code |-> Unwrap(c.team), date |-> Today,
          media_type |-> "VIDEO", feed_type |-> c.feed, game_number |-> c.game_number]
    ELSE IF c.recap
    THEN [mode |-> "PlayRecap", date |-> Today, team_code |-> c.team,
          game_number |-> c.game_number]
    ELSE [mode |-> "DaySchedule", date |-> Today]

(* Cli::to_mode *)
to_mode(c) ==
    LET today == Today
        date  == IF c.date # None THEN Unwrap(c.date)
                 ELSE IF c.yesterday THEN today - 1
                 ELSE IF c.tomorrow THEN today + 1
                 ELSE today
        media_type == IF c.audio THEN "AUDIO" ELSE "VIDEO"
    IN  IF c.init THEN [mode |-> "Init"]
        ELSE IF c.recap
        THEN [mode |-> "PlayRecap", date |-> date, team_code |-> c.team,
              game_number |-> c.game_number]
        ELSE IF c.team # None
        THEN IF c.condensed
             THEN [mode |-> "PlayCondensedGame", team_code |-> Unwrap(c.team),
                   date |-> date, game_number |-> c.game_number]
             ELSE [mode |-> "PlayStream", team_code |-> Unwrap(c.team), date |-> date,
                   media_type |-> media_type, feed_type |-> c.feed,
                   game_number |-> c.game_number]
        ELSE IF c.days # None
        THEN LET offset_date == today + Unwrap(c.days)
             IN  [mode |-> "RangeSchedule",
                  start_date |-> Min(today, offset_date),
                  end_date   |-> Max(today, offset_date)]
        ELSE [mode |-> "DaySchedule", date |-> date]

ToModeCall ==
    /\ cli # None
    /\ Unwrap(cli).mode = None
    /\ cli' = Some([Unwrap(cli) EXCEPT !.mode = Some(to_mode(Unwrap(cli).args))])
    /\ UNCHANGED <<mainVars, butCli>>

InitCli ==
    /\ cli \in {Some([args |-> c, mode |-> None]) : c \in {f \in Flags : Accepted(f)}}
    /\ MainIdle
    /\ FetchIdle
    /\ TeamQueryIdle
    /\ DateInIdle
    /\ GatewayIdle
    /\ RunIdle
    /\ RecapIdle

NextCli == ToModeCall

SpecCli == InitCli /\ [][NextCli]_vars

----------------------------------------------------------------------------
(* GameDate::from_str on its own.  A string is a sequence of characters;   *)
(* NaiveDate::parse_from_str reads it item by item as chrono does: white   *)
(* space before a numeric item is skipped, %Y takes one to four digits or  *)
(* a sign and any number of digits, %m and %d take one or two digits, a    *)
(* literal must be the next character, and nothing may be left over.       *)
DigitChars == <<"0", "1", "2", "3", "4", "5", "6", "7", "8", "9">>
Digits     == {DigitChars[i] : i \in 1..Len(DigitChars)}
DigitVal(c) == (CHOOSE i \in 1..Len(DigitChars) : DigitChars[i] = c) - 1

(* the number of leading characters of s that are in C *)
Leading(s, C) ==
    CHOOSE n \in 0..Len(s) :
      /\ \A i \in 1..n : s[i] \in C
      /\ n = Len(s) \/ s[n + 1] \notin C

RECURSIVE Value(_)
Value(ds) ==
    IF ds = <<>> THEN 0
    ELSE Value(SubSeq(ds, 1, Len(ds) - 1)) * 10 + DigitVal(ds[Len(ds)])

trim_start(s) == SubSeq(s, Leading(s, {" "}) + 1, Len(s))

(* scan::number(s, min, max): the value of the leading digits, at most max *)
(* of them, and the rest; nothing when there are fewer than min            *)
scan_number(s, min, max) ==
    LET n == Min(Leading(s, Digits), max)
    IN  IF n < min THEN None
        ELSE Some([v |-> Value(SubSeq(s, 1, n)), rest |-> SubSeq(s, n + 1, Len(s))])

(* Item::Numeric *)
Numeric(s, width, signed) ==
    LET t == trim_start(s)
    IN  IF signed /\ t # <<>> /\ t[1] = "-"
        THEN LET r == scan_number(Tail(t), 1, Len(t))
             IN  IF r = None THEN None
                 ELSE Some([v |-> 0 - Unwrap(r).v, rest |-> Unwrap(r).rest])
        ELSE IF signed /\ t # <<>> /\ t[1] = "+"
        THEN scan_number(Tail(t), 1, Len(t))
        ELSE scan_number(t, 1, width)

(* the items of a format string: "Y", "m", "d" for %Y, %m, %d, any other   *)
(* character for itself                                                    *)
formats ==
    << <<"Y", "-", "m", "-", "d">>,
       <<"m", "-", "d", "-", "Y">>,
       <<"m", "/", "d", "/", "Y">> >>

Parsed == [year |-> None, month |-> None, day |-> None]

RECURSIVE parse_items(_, _, _)
parse_items(s, items, parsed) ==
    IF items = <<>>
    THEN IF s = <<>> THEN Some(parsed) ELSE None
    ELSE LET item == Head(items)
         IN  IF item \in {"Y", "m", "d"}
             THEN LET r == Numeric(s, IF item = "Y" THEN 4 ELSE 2, item = "Y")
                  IN  IF r = None THEN None
                      ELSE parse_items(Unwrap(r).rest, Tail(items),
                             CASE item = "Y" -> [parsed EXCEPT !.year  = Some(Unwrap(r).v)]
                               [] item = "m" -> [parsed EXCEPT !.month = Some(Unwrap(r).v)]
                               [] item = "d" -> [parsed EXCEPT !.day   = Some(Unwrap(r).v)])
             ELSE IF s # <<>> /\ s[1] = item
                  THEN parse_items(Tail(s), Tail(items), parsed)
                  ELSE None

(* the proleptic Gregorian calendar of NaiveDate *)
IsLeap(y) == (y % 4 = 0 /\ y % 100 # 0) \/ y % 400 = 0
DaysIn(y, m) ==
    CASE m \in {1, 3, 5, 7, 8, 10, 12} -> 31
      [] m \in {4, 6, 9, 11}           -> 30
      [] OTHER                         -> IF IsLeap(y) THEN 29 ELSE 28
IsDate(y, m, d) == m \in 1..12 /\ d >= 1 /\ d <= DaysIn(y, m)

NaiveDate(y, m, d) == [year |-> y, month |-> m, day |-> d]

(* NaiveDate::parse_from_str *)
parse_from_str(s, fmt) ==
    LET p == parse_items(s, fmt, Parsed)
    IN  IF p = None THEN None
        ELSE LET y == Unwrap(Unwrap(p).year)
                 m == Unwrap(Unwrap(p).month)
                 d == Unwrap(Unwrap(p).day)
             IN  IF IsDate(y, m, d) THEN Some(NaiveDate(y, m, d)) ELSE None

from_str_any_year(s) ==
    LET hits == {i \in 1..Len(formats) : parse_from_str(s, formats[i]) # None}
    IN  IF hits = {} THEN [ok |-> FALSE, date |-> None, error |-> "invalid_format"]
        ELSE [ok |-> TRUE, date |-> parse_from_str(s, formats[First(hits)]),
              error |-> "none"]

(* GameDate::from_str *)
from_str(s) ==
    LET hits == {i \in 1..Len(formats) : parse_from_str(s, formats[i]) # None}
    IN  IF hits = {} THEN [ok |-> FALSE, date |-> None, error |-> "invalid_format"]
        ELSE LET date == parse_from_str(s, formats[First(hits)])
             IN  IF Unwrap(date).year < 2022
                 THEN [ok |-> FALSE, date |-> None, error |-> "too_old"]
                 ELSE [ok |-> TRUE, date |-> date, error |-> "none"]

(* The strings tried: three fields with a separator after the first and    *)
(* the second, white space before a field or not, something after the last *)
(* field or not; and the string of the test.                               *)
FieldTexts ==
    {<<"2", "0", "2", "4">>, <<"2", "0", "2", "1">>, <<"2", "0", "2", "4", "1">>,
     <<"+", "2", "0", "2", "4">>, <<"1", "0">>, <<"1">>, <<"0", "2">>,
     <<"3", "0">>, <<"1", "3">>}
Separators == {"-", "/"}
Paddings   == {<<>>, <<" ">>}
Endings    == {<<>>, <<"x">>}

DateStrings ==
    {p1 \o f1 \o <<s1>> \o p2 \o f2 \o <<s2>> \o f3 \o e :
       p1 \in Paddings, f1 \in FieldTexts, s1 \in Separators,
       p2 \in Paddings, f2 \in FieldTexts, s2 \in Separators,
       f3 \in FieldTexts, e \in Endings}
    \cup {<<"i", "n", "v", "a", "l", "i", "d", "-", "d", "a", "t", "e">>}

FromStrCall ==
    /\ date_in # None
    /\ Unwrap(date_in).out = None
    /\ date_in' = Some([Unwrap(date_in) EXCEPT !.out = Some(from_str(Unwrap(date_in).s))])
    /\ UNCHANGED <<mainVars, butDateIn>>

InitDate ==
    /\ date_in \in {Some([s |-> s, out |-> None]) : s \in DateStrings}
    /\ MainIdle
    /\ FetchIdle
    /\ TeamQueryIdle
    /\ CliIdle
    /\ GatewayIdle
    /\ RunIdle
    /\ RecapIdle

NextDate == FromStrCall

SpecDate == InitDate /\ [][NextDate]_vars

----------------------------------------------------------------------------
(* init_playback_session on its own, called several times on one session:  *)
(* each call awaits init_media_session and then sends its own request.     *)
(* The gateway answers an initSession request with ids it has not given    *)
(* out before.                                                             *)
MaxCalls == 2     \* calls of init_playback_session

MediaIds == {"m1", "m2"}

(* a request as the gateway has seen it: the call that sent it, the        *)
(* operation, how it ended, the ids in its response (initSession) or in    *)
(* its variables (initPlaybackSession)                                     *)
GatewayRequest(call, op, outcome, ids, media_id) ==
    [call |-> call, op |-> op, outcome |-> outcome, ids |-> ids, media_id |-> media_id]

FreshIds ==
    LET k == 1 + Cardinality({i \in 1..Len(gateway.log) :
                                /\ gateway.log[i].op = "initSession"
                                /\ gateway.log[i].outcome = "ok"})
    IN  [session_id |-> k, device_id |-> k]

InitPlaybackSessionCall ==
    /\ gateway.pc = "idle"
    /\ gateway.calls < MaxCalls
    /\ \E m \in MediaIds :
         gateway' = [gateway EXCEPT !.pc = "init_media_session",
                                    !.calls = gateway.calls + 1,
                                    !.media_id = Some(m),
                                    !.ids = None]
    /\ UNCHANGED <<mainVars, butGateway>>

init_media_session_cached ==
    /\ gateway.pc = "init_media_session"
    /\ LET got == {i \in 1..Len(gateway.log) :
                     gateway.log[i].op = "initSession" /\ gateway.log[i].outcome = "ok"}
       IN  IF got # {}
           THEN gateway' = [gateway EXCEPT !.pc = "init_playback_session",
                                           !.ids = gateway.log[First(got)].ids]
           ELSE gateway' = [gateway EXCEPT
                              !.pc = "init_playback_session",
                              !.ids = Some(FreshIds),
                              !.log = Append(@, GatewayRequest(gateway.calls, "initSession",
                                                               "ok", Some(FreshIds), None))]
    /\ UNCHANGED <<mainVars, butGateway>>

(* init_media_session: the initSession request and the ids in its response *)
init_media_session ==
    /\ gateway.pc = "init_media_session"
    /\ \E o \in HttpOutcomes :
         IF o # "ok"
         THEN gateway' = [gateway EXCEPT
                            !.pc = "idle",
                            !.media_id = None,
                            !.log = Append(@, GatewayRequest(gateway.calls, "initSession",
                                                             o, None, None))]
         ELSE gateway' = [gateway EXCEPT
                            !.pc = "init_playback_session",
                            !.ids = Some(FreshIds),
                            !.log = Append(@, GatewayRequest(gateway.calls, "initSession",
                                                             "ok", Some(FreshIds), None))]
    /\ UNCHANGED <<mainVars, butGateway>>

(* init_playback_session after init_media_session has returned: the       *)
(* initPlaybackSession request with mediaId, sessionId and deviceId        *)
init_playback_session ==
    /\ gateway.pc = "init_playback_session"
    /\ \E o \in HttpOutcomes :
         gateway' = [gateway EXCEPT
                       !.pc = "idle",
                       !.media_id = None,
                       !.ids = None,
                       !.log = Append(@, GatewayRequest(gateway.calls, "initPlaybackSession",
                                                        o, gateway.ids, gateway.media_id))]
    /\ UNCHANGED <<mainVars, butGateway>>

InitGateway ==
    /\ gateway = NewGateway
    /\ MainIdle
    /\ FetchIdle
    /\ TeamQueryIdle
    /\ CliIdle
    /\ DateInIdle
    /\ RunIdle
    /\ RecapIdle

NextGateway ==
    \/ InitPlaybackSessionCall
    \/ init_media_session
    \/ init_playback_session

SpecGateway == InitGateway /\ [][NextGateway]_vars

----------------------------------------------------------------------------
(* Two invocations of the program at once, each in authorize, on the same  *)
(* token.json.  Nothing orders them.  fs::write opens the file, which      *)
(* empties it, and then writes into it from its start: the file is empty   *)
(* between the two, and bytes of a longer text written in between stay     *)
(* behind the end of a shorter one.                                        *)
Racers == {1, 2}

Truncated(r) == [k |-> "garbage", emptied_by |-> r]
Mixed(r)     == [k |-> "garbage", head_of |-> r]
PartialFiles == {Truncated(r) : r \in Racers} \cup {Mixed(r) : r \in Racers}

(* save, up to the open of fs::write: create_dir_all, to_string_pretty,    *)
(* File::create                                                            *)
SaveOpen(r) ==
    /\ session[r].pc = "save"
    /\ LET tok == Stamp(Unwrap(session[r].okta_tokens), now)
           tr  == [trace[r] EXCEPT !.computed_at = Some(now)]
       IN  \E o \in {"ok", "create_err"} :
             IF o = "ok"
             THEN /\ cache' = Truncated(r)
                  /\ session' = [session EXCEPT ![r].pc = "write",
                                                ![r].okta_tokens = Some(tok)]
                  /\ trace' = [trace EXCEPT ![r] = tr]
             ELSE /\ cache' = cache
                  /\ session' = [session EXCEPT ![r].pc = "err",
                                                ![r].error = "save",
                                                ![r].okta_tokens = Some(tok)]
                  /\ trace' = [trace EXCEPT ![r] = tr]
    /\ UNCHANGED <<now, nonAuthVars>>

(* save, the write_all of fs::write: over an empty file the text is the    *)
(* file; over a text written since the open it is the file if it is not    *)
(* the shorter one, and the head of a mixed file if it is                  *)
SaveWrite(r) ==
    /\ session[r].pc = "write"
    /\ LET text == Serialize(Unwrap(session[r].okta_tokens))
       IN  \E o \in {"ok", "write_err"}, shorter \in BOOLEAN :
             /\ shorter => cache \notin {Truncated(q) : q \in Racers}
             /\ LET file == CASE o = "write_err" -> Mixed(r)
                              [] shorter         -> Mixed(r)
                              [] OTHER           -> text
                IN  /\ cache' = file
                    /\ trace' = [trace EXCEPT ![r].written = Append(@, file)]
             /\ session' = IF o = "ok"
                           THEN [session EXCEPT ![r].pc = "ok"]
                           ELSE [session EXCEPT ![r].pc = "err", ![r].error = "save"]
    /\ UNCHANGED <<now, nonAuthVars>>

InitRace ==
    /\ now = 0
    /\ cache \in {NoFile, Serialize(OktaAuthResponse(0, BUFFER, Some(BUFFER)))}
    /\ session = [r \in Runs |-> NewSession]
    /\ trace = [r \in Runs |-> NewTrace]
    /\ ValidIdle
    /\ SelectIdle
    /\ PipeIdle
    /\ FeedIdle
    /\ MoreIdle

NextRace ==
    \/ \E r \in Racers : AuthorizeStart(r)
    \/ \E r \in Racers : Authenticate(r)
    \/ \E r \in Racers : FetchClientId(r)
    \/ \E r \in Racers : FetchOktaCode(r)
    \/ \E r \in Racers : ExchangeCodeForToken(r)
    \/ \E r \in Racers : SaveOpen(r)
    \/ \E r \in Racers : SaveWrite(r)

SpecRace == InitRace /\ [][NextRace]_vars

----------------------------------------------------------------------------
(* run: one invocation of the program, from the mode that to_mode gave to  *)
(* the end of the match over it.  The session of the invocation is         *)
(* session[1], its token cache file is cache; what authorize does with     *)
(* them is in trace[1].                                                    *)
Modes == {"Init", "PlayStream", "PlayCondensedGame", "PlayRecap",
          "RangeSchedule", "DaySchedule"}

(* the one arm of the match that calls authorize *)
AuthorizesInEveryMode(mode) == mode \in Modes

Authorizes(mode) == mode = "PlayStream"

(* answers of the schedule endpoint: dates for one day, for none, for      *)
(* several, or a failure of send, error_for_status or json                 *)
StatsOutcomes == {"one", "none", "many", "send_err", "status_err", "parse_err"}

FetchFails(fn, o) ==
    \/ o \in {"send_err", "status_err", "parse_err"}
    \/ fn = "date" /\ o = "many"

HighlightOutcomes == {"no_team_games", "select_err", "no_highlight", "url"}

NewRun(mode, team, file) ==
    [mode   |-> mode,
     team   |-> team,        \* PlayRecap: a team was given
     pc     |-> "match",
     error  |-> "none",
     cache0 |-> file,        \* the token cache file as the invocation found it
     stats  |-> <<>>,        \* schedule requests: who asked, what came back
     media  |-> 0,           \* requests to the media gateway
     config |-> <<>>,        \* what was done with config.toml
     played |-> 0,           \* urls handed to the player
     left   |-> 0]           \* matchups of the recap list still to play

Running(mode) == run # None /\ Unwrap(run).mode = mode /\ Unwrap(run).pc = "match"

ScheduleRequest(rec, fn, o) ==
    [rec EXCEPT !.stats = Append(@, [state   |-> session[1].state,
                                     token   |-> session[1].okta_tokens # None,
                                     fn      |-> fn,
                                     outcome |-> o])]

Raise(rec, error) == [rec EXCEPT !.pc = "err", !.error = error]

Finish(rec) == IF rec.pc = "err" THEN rec ELSE [rec EXCEPT !.pc = "ok"]

(* find_highlight_playback_url and, with a url, handle_playback_url *)
PlayHighlight(rec, o, h, p) ==
    LET asked == ScheduleRequest(rec, "date", o)
    IN  IF FetchFails("date", o) THEN Raise(asked, "schedule")
        ELSE IF o = "none" \/ h \in {"no_team_games", "no_highlight"} THEN asked
        ELSE IF h = "select_err" THEN Raise(asked, "select")
        ELSE IF p # "ok" THEN Raise([asked EXCEPT !.played = @ + 1], "player")
        ELSE [asked EXCEPT !.played = @ + 1]

(* Cli::parse, to_mode, AppConfig::load, MlbSession::new *)
RunStart ==
    /\ run = None
    /\ \E mode \in Modes, team \in BOOLEAN, cfg \in {"ok", "err"} :
         /\ team = (mode \in {"PlayStream", "PlayCondensedGame"}) \/ mode = "PlayRecap"
         /\ LET rec == [NewRun(mode, team, cache) EXCEPT !.config = <<"load">>]
            IN  run' = Some(IF cfg = "ok" THEN rec ELSE Raise(rec, "config"))
    /\ UNCHANGED <<mainVars, butRun>>

RunInit ==
    /\ Running("Init")
    /\ \E o \in {"ok", "err"} :
         LET rec == [Unwrap(run) EXCEPT !.config = Append(@, "generate")]
         IN  run' = Some(IF o = "ok" THEN Finish(rec) ELSE Raise(rec, "config"))
    /\ UNCHANGED <<mainVars, butRun>>

(* the steps of authorize, in the arm that calls it *)
RunAuthorizing == run # None /\ Unwrap(run).pc = "match" /\ Authorizes(Unwrap(run).mode)

(* find_stream_playback_url on the authorized session, then the player *)
RunPlayStream ==
    /\ Running("PlayStream")
    /\ session[1].pc \in Ended
    /\ \E o \in StatsOutcomes, g \in {"none", "err", "url"}, p \in PlayerOutcomes :
         LET rec   == Unwrap(run)
             asked == ScheduleRequest(rec, "date", o)
             media == [asked EXCEPT !.media = @ + 1]
         IN  run' = Some(
               IF session[1].pc = "err" THEN Raise(rec, "authorize")
               ELSE IF FetchFails("date", o) THEN Raise(asked, "schedule")
               ELSE IF o = "none" THEN Finish(asked)
               ELSE IF g = "err" THEN Raise(media, "media")
               ELSE IF g = "none" THEN Finish(media)
               ELSE IF p # "ok" THEN Raise([media EXCEPT !.played = @ + 1], "player")
               ELSE Finish([media EXCEPT !.played = @ + 1]))
    /\ UNCHANGED <<mainVars, butRun>>

RunPlayCondensedGame ==
    /\ Running("PlayCondensedGame")
    /\ \E o \in StatsOutcomes, h \in HighlightOutcomes, p \in PlayerOutcomes :
         run' = Some(Finish(PlayHighlight(Unwrap(run), o, h, p)))
    /\ UNCHANGED <<mainVars, butRun>>

RunPlayRecapTeam ==
    /\ Running("PlayRecap")
    /\ Unwrap(run).team
    /\ \E o \in StatsOutcomes, h \in HighlightOutcomes, p \in PlayerOutcomes :
         run' = Some(Finish(PlayHighlight(Unwrap(run), o, h, p)))
    /\ UNCHANGED <<mainVars, butRun>>

(* no team: the schedule of the day, and its matchups listed *)
RunPlayRecapList ==
    /\ Running("PlayRecap")
    /\ ~Unwrap(run).team
    /\ Unwrap(run).stats = <<>>
    /\ \E o \in StatsOutcomes, n \in 0..MaxDayGames :
         LET asked == ScheduleRequest(Unwrap(run), "date", o)
         IN  run' = Some(
               IF FetchFails("date", o) THEN Raise(asked, "schedule")
               ELSE IF o = "none" \/ n = 0 THEN Finish(asked)
               ELSE [asked EXCEPT !.left = n])
    /\ UNCHANGED <<mainVars, butRun>>

(* one turn of the loop over the matchups *)
RunPlayRecapNext ==
    /\ Running("PlayRecap")
    /\ Unwrap(run).left > 0
    /\ \E known \in BOOLEAN, o \in StatsOutcomes, h \in HighlightOutcomes,
          p \in PlayerOutcomes :
         LET rec  == Unwrap(run)
             done == PlayHighlight([rec EXCEPT !.left = @ - 1], o, h, p)
         IN  run' = Some(
               IF ~known THEN Raise(rec, "team")
               ELSE IF done.left = 0 THEN Finish(done)
               ELSE done)
    /\ UNCHANGED <<mainVars, butRun>>

RunRangeSchedule ==
    /\ Running("RangeSchedule")
    /\ \E o \in StatsOutcomes :
         LET asked == ScheduleRequest(Unwrap(run), "range", o)
         IN  run' = Some(IF FetchFails("range", o) THEN Raise(asked, "schedule")
                         ELSE Finish(asked))
    /\ UNCHANGED <<mainVars, butRun>>

RunDaySchedule ==
    /\ Running("DaySchedule")
    /\ \E o \in StatsOutcomes :
         LET asked == ScheduleRequest(Unwrap(run), "date", o)
         IN  run' = Some(IF FetchFails("date", o) THEN Raise(asked, "schedule")
                         ELSE Finish(asked))
    /\ UNCHANGED <<mainVars, butRun>>

InitRun == InitAuth

NextRun ==
    \/ RunStart
    \/ RunInit
    \/ RunAuthorizing /\ AuthorizeStart(1)
    \/ RunAuthorizing /\ Authenticate(1)
    \/ RunAuthorizing /\ FetchClientId(1)
    \/ RunAuthorizing /\ FetchOktaCode(1)
    \/ RunAuthorizing /\ ExchangeCodeForToken(1)
    \/ RunAuthorizing /\ AuthorizeSave(1)
    \/ RunPlayStream
    \/ RunPlayCondensedGame
    \/ RunPlayRecapTeam
    \/ RunPlayRecapList
    \/ RunPlayRecapNext
    \/ RunRangeSchedule
    \/ RunDaySchedule

SpecRun == InitRun /\ [][NextRun]_vars

----------------------------------------------------------------------------
(* Recap mode without a team: the day's games are listed and, matchup by   *)
(* matchup, the recap of the home team is looked up and played.            *)
RecapTeams == Teams \cup {"Texas Rangers"}

RecapMatchups == {m \in RecapTeams \X RecapTeams : m[1] # m[2]}

(* game_number of the i-th game: its place among the games of its matchup *)
NumberAt(f, i) == Cardinality({j \in 1..i : f[j][2] = f[i][2]})

(* A team plays one opponent on a day, at most twice, on the same field. *)
OneOpponent(f) ==
    \A i, j \in DOMAIN f :
        ({f[i][2][1], f[i][2][2]} \cap {f[j][2][1], f[j][2][2]} # {}) => f[i][2] = f[j][2]

RecapDays ==
    UNION {{[i \in 1..len |-> GameData(i, NumberAt(f, i), f[i][1], f[i][2][1], f[i][2][2])] :
              f \in {g \in [1..len -> {"Final", "Live"} \X RecapMatchups] :
                       OneOpponent(g) /\ \A i \in 1..len : NumberAt(g, i) <= 2}} :
           len \in 0..MaxDayGames}

(* the url of the recap of a game; a game that is over has one *)
RecapOf(game) == [recap_of |-> game.game_pk]

find_highlight(game) ==
    IF game.abstract_game_state = "Final" THEN Some(RecapOf(game)) ELSE None

find_by_name(name) == IF name \in RecapTeams THEN Some(name) ELSE None

(* find_highlight_playback_url, the schedule having been fetched *)
find_highlight_playback_url(day, team, number) ==
    LET tg == find_team_games(day, team)
    IN  IF tg = None THEN [ok |-> TRUE, url |-> None, error |-> "none"]
        ELSE LET sel == select_game(Unwrap(tg), number)
             IN  IF ~sel.ok THEN [ok |-> FALSE, url |-> None, error |-> sel.error]
                 ELSE [ok |-> TRUE, url |-> find_highlight(Unwrap(sel.game)),
                       error |-> "none"]

NewRecap(games, number) ==
    [games       |-> games,      \* the schedule of the day, as the endpoint gives it
     game_number |-> number,
     pc          |-> "list",
     error       |-> "none",
     matchups    |-> <<>>,
     at          |-> 0,          \* the list entry the loop is at
     played      |-> <<>>]       \* per entry done: the url handed to the player

(* fetch_schedule_by_date, and the (away, home) names of its games *)
RecapList ==
    /\ recap # None
    /\ Unwrap(recap).pc = "list"
    /\ \E o \in {"ok", "err"} :
         LET rec == Unwrap(recap)
         IN  recap' = Some(
               IF o = "err" THEN [rec EXCEPT !.pc = "err", !.error = "schedule"]
               ELSE IF Len(rec.games) = 0 THEN [rec EXCEPT !.pc = "ok"]
               ELSE [rec EXCEPT !.pc = "loop", !.at = 1,
                                !.matchups = [i \in 1..Len(rec.games) |->
                                                <<rec.games[i].away, rec.games[i].home>>]])
    /\ UNCHANGED <<mainVars, butRecap>>

(* one turn of the loop: find_by_name(home), find_highlight_playback_url,  *)
(* handle_playback_url                                                     *)
RecapNext ==
    /\ recap # None
    /\ Unwrap(recap).pc = "loop"
    /\ \E o \in {"ok", "err"}, p \in PlayerOutcomes :
         LET rec  == Unwrap(recap)
             team == find_by_name(rec.matchups[rec.at][2])
             res  == find_highlight_playback_url(DaySchedule(rec.games), Unwrap(team),
                                                 rec.game_number)
             done == [rec EXCEPT !.played = Append(@, [entry |-> rec.at, url |-> res.url]),
                                 !.at = @ + 1]
         IN  recap' = Some(
               IF team = None THEN [rec EXCEPT !.pc = "err", !.error = "team"]
               ELSE IF o = "err" THEN [rec EXCEPT !.pc = "err", !.error = "schedule"]
               ELSE IF ~res.ok THEN [rec EXCEPT !.pc = "err", !.error = res.error]
               ELSE IF res.url # None /\ p # "ok"
                    THEN [done EXCEPT !.pc = "err", !.error = "player"]
               ELSE IF done.at > Len(rec.matchups) THEN [done EXCEPT !.pc = "ok"]
               ELSE done)
    /\ UNCHANGED <<mainVars, butRecap>>

InitRecap ==
    /\ recap \in {Some(NewRecap(gs, n)) :
                    gs \in RecapDays, n \in {None} \cup {Some(k) : k \in 1..2}}
    /\ MainIdle
    /\ FetchIdle
    /\ TeamQueryIdle
    /\ CliIdle
    /\ DateInIdle
    /\ GatewayIdle
    /\ RunIdle

NextRecap == RecapList \/ RecapNext

SpecRecap == InitRecap /\ [][NextRecap]_vars

----------------------------------------------------------------------------
(* What the claims speak of. *)

(* authorize has been called in invocation r. *)
Called(r) == trace[r].started # None

(* The file held a token that was valid when invocation r called authorize: *)
(* expires_at is set and now + 60 s < expires_at.                           *)
FoundValid(r) ==
    /\ Called(r)
    /\ LET f == Unwrap(trace[r].cache0)
           t == Unwrap(trace[r].started)
       IN  /\ f.k = "json"
           /\ ~f.expires_at.null
           /\ t + 60 < f.expires_at.v

(* The file was missing or held a token that was not valid. *)
FoundNoValid(r) ==
    /\ Called(r)
    /\ Unwrap(trace[r].cache0).k # "garbage"
    /\ ~FoundValid(r)

(* No invocation after r has started. *)
Latest(r) == \A q \in Runs : q > r => ~Called(q)

Count(seq, x) == Cardinality({i \in 1..Len(seq) : seq[i] = x})

NetworkFailures ==
    {"transport", "status", "parse", "client_id_not_found", "code_not_found", "unescape"}

(* C1: a valid cached token makes authorize return an Authorized session    *)
(* carrying exactly that token, without any request to the identity         *)
(* provider.                                                                *)
C1_CacheHitSkipsNetwork ==
    \A r \in Runs :
      FoundValid(r) =>
        /\ session[r].pc = "ok"
        /\ session[r].state = "Authorized"
        /\ session[r].okta_tokens # None
        /\ LET tok == Unwrap(session[r].okta_tokens)
               f   == Unwrap(trace[r].cache0)
           IN  /\ tok.access_token = f.access_token
               /\ tok.id_token = f.id_token
               /\ tok.expires_in = f.expires_in
               /\ tok.token_type = f.token_type
               /\ tok.scope = f.scope
               /\ tok.expires_at = Some(f.expires_at.v)
        /\ trace[r].reqs = <<>>

C1_Witness ==
    \E r \in Runs :
      /\ FoundValid(r)
      /\ session[r].pc = "ok"
      /\ trace[r].reqs = <<>>

(* C2: of two invocations in sequence, the second starting while the token  *)
(* the first obtained is still valid, the first sends each of the four      *)
(* requests once and the second sends none.                                 *)
C2_SecondRunSendsNothing ==
    \A r \in Runs :
      (/\ r + 1 \in Runs
       /\ session[r].pc = "ok"
       /\ trace[r].wire # None
       /\ Called(r + 1)
       /\ Unwrap(trace[r + 1].started) + 60
            < Unwrap(trace[r].computed_at) + Unwrap(trace[r].wire).expires_in)
      => /\ trace[r + 1].reqs = <<>>
         /\ \A q \in {"authn", "client_id", "authorize", "token"} :
              Count(trace[r].reqs \o trace[r + 1].reqs, q) = 1

C2_Witness ==
    \E r \in Runs :
      /\ r + 1 \in Runs
      /\ session[r].pc = "ok"
      /\ trace[r].wire # None
      /\ session[r + 1].pc = "ok"
      /\ Unwrap(trace[r + 1].started) + 60
           < Unwrap(trace[r].computed_at) + Unwrap(trace[r].wire).expires_in
      /\ Len(trace[r].reqs) = 4
      /\ trace[r + 1].reqs = <<>>

(* C3: a completed full authorization writes the file exactly once and      *)
(* leaves the newly exchanged token in it; a cache hit writes nothing.      *)
C3_WritesOncePerFullRun ==
    \A r \in Runs :
      /\ (FoundNoValid(r) /\ session[r].pc = "ok") =>
           /\ Len(trace[r].written) = 1
           /\ trace[r].written[1].k = "json"
           /\ trace[r].written[1].access_token = r
           /\ trace[r].written[1] = Serialize(Unwrap(session[r].okta_tokens))
           /\ Latest(r) => cache = trace[r].written[1]
      /\ FoundValid(r) =>
           /\ trace[r].written = <<>>
           /\ Latest(r) => cache = Unwrap(trace[r].cache0)

C3_Witness ==
    \E r \in Runs :
      /\ r + 1 \in Runs
      /\ session[r].pc = "ok"
      /\ FoundNoValid(r)
      /\ Unwrap(trace[r].cache0).k = "json"
      /\ Len(trace[r].written) = 1
      /\ FoundValid(r + 1)
      /\ trace[r + 1].written = <<>>

(* C4: is_valid is true exactly when expires_at is set and                  *)
(* now + 60 s < expires_at.                                                 *)
C4_IsValidIffBeforeBuffer ==
    valid_out # None =>
      (Unwrap(valid_out) <=>
         (/\ token_in.expires_at # None
          /\ \A e \in token_in.expires_at : now + 60 < e))

C4_Witness ==
    /\ valid_out = Some(FALSE)
    /\ token_in.expires_at = Some(now + 60)

(* C5: whatever token authorize writes has expires_at set to the instant of *)
(* its computation plus expires_in; the token as the exchange returned it   *)
(* is never written.                                                        *)
C5_PersistedTokenHasExpiresAt ==
    \A r \in Runs :
      \A i \in 1..Len(trace[r].written) :
        LET w == trace[r].written[i]
        IN  w.k = "json" =>
              /\ trace[r].wire # None
              /\ trace[r].computed_at # None
              /\ ~w.expires_at.null
              /\ w.expires_in = Unwrap(trace[r].wire).expires_in
              /\ w.expires_at.v = Unwrap(trace[r].computed_at) + w.expires_in
              /\ w # Serialize(Unwrap(trace[r].wire))

C5_Witness ==
    \E r \in Runs :
      /\ Len(trace[r].written) = 1
      /\ trace[r].written[1].k = "json"
      /\ Unwrap(trace[r].computed_at) > Unwrap(trace[r].started)
      /\ cache = trace[r].written[1]

(* C6: a full authorization passes Unauthenticated, Authenticated,          *)
(* OktaCodeReceived, Authorized in that order and sends authn, client id,   *)
(* authorize, token in that order, each at most once and each only after    *)
(* the one before succeeded.                                                *)
OkCount(r, reqs) ==
    Cardinality({i \in 1..Len(trace[r].reqs) :
                   trace[r].reqs[i] \in reqs /\ trace[r].resps[i] = "ok"})

C6_StrictOrder ==
    \A r \in Runs :
      FoundNoValid(r) =>
        /\ IsPrefix(trace[r].reqs, RequestOrder)
        /\ Len(trace[r].resps) = Len(trace[r].reqs)
        /\ \A i \in 1..(Len(trace[r].reqs) - 1) : trace[r].resps[i] = "ok"
        /\ IsPrefix(trace[r].trail, StateOrder)
        /\ session[r].state = trace[r].trail[Len(trace[r].trail)]
        /\ Len(trace[r].trail) = 1 + OkCount(r, {"authn", "authorize", "token"})
        /\ session[r].pc = "ok" =>
             /\ trace[r].reqs = RequestOrder
             /\ trace[r].trail = StateOrder

C6_Witness ==
    \E r \in Runs :
      /\ FoundNoValid(r)
      /\ session[r].pc = "ok"
      /\ trace[r].reqs = RequestOrder
      /\ trace[r].trail = StateOrder

(* C7: a failed step ends authorize with an error: the request is not sent  *)
(* again, no later request is sent and the file is left as it was.          *)
C7_FailureAborts ==
    \A r \in Runs :
      /\ \A i \in 1..Len(trace[r].resps) :
           trace[r].resps[i] # "ok" =>
             /\ i = Len(trace[r].reqs)
             /\ session[r].pc = "err"
             /\ session[r].error = trace[r].resps[i]
             /\ Count(trace[r].reqs, trace[r].reqs[i]) = 1
      /\ (session[r].pc = "err" /\ session[r].error \in NetworkFailures) =>
           /\ trace[r].reqs # <<>>
           /\ IsPrefix(trace[r].reqs, RequestOrder)
           /\ trace[r].resps[Len(trace[r].resps)] = session[r].error
           /\ trace[r].written = <<>>
           /\ Latest(r) => cache = Unwrap(trace[r].cache0)

C7_Witness ==
    \E r \in Runs :
      /\ session[r].pc = "err"
      /\ session[r].error = "code_not_found"
      /\ trace[r].reqs = <<"authn", "client_id", "authorize">>
      /\ Unwrap(trace[r].cache0).k = "json"
      /\ cache = Unwrap(trace[r].cache0)

(* select_game has returned. *)
Selected == game_data # None

LiveGames == {i \in 1..Len(team_games) : team_games[i].abstract_game_state = "Live"}
GameOnes  == {i \in 1..Len(team_games) : team_games[i].game_number = 1}

(* C9: of two games of which exactly one is Live, select_game without a     *)
(* game number returns the live one, whatever its number and place.         *)
C9_LiveGamePreferred ==
    (/\ Selected
     /\ Len(team_games) = 2
     /\ Cardinality(LiveGames) = 1
     /\ game_number = None)
    => \E i \in LiveGames : Unwrap(game_data) = Ok(team_games[i])

C9_Witness ==
    /\ Selected
    /\ game_number = None
    /\ Len(team_games) = 2
    /\ team_games[1].game_number = 1
    /\ team_games[1].abstract_game_state = "Final"
    /\ team_games[2].game_number = 2
    /\ team_games[2].abstract_game_state = "Live"
    /\ Unwrap(game_data) = Ok(team_games[2])

(* C10 as stated: of two or more games none of which is Live, select_game   *)
(* without a game number returns the game whose game_number is 1.           *)
C10_Original ==
    (/\ Selected
     /\ Len(team_games) >= 2
     /\ LiveGames = {}
     /\ game_number = None)
    => /\ Unwrap(game_data).ok
       /\ \A g \in Unwrap(game_data).game : g.game_number = 1

(* C10 as amended: of two or more games none of which is Live, select_game  *)
(* without a game number returns the first game in list order whose         *)
(* game_number is 1 if there is one, and the first game of the list if      *)
(* there is none.                                                           *)
C10_GameOneElseFirst ==
    (/\ Selected
     /\ Len(team_games) >= 2
     /\ LiveGames = {}
     /\ game_number = None)
    => /\ GameOnes # {} =>
            \E i \in GameOnes :
              /\ \A j \in GameOnes : i <= j
              /\ Unwrap(game_data) = Ok(team_games[i])
       /\ GameOnes = {} => Unwrap(game_data) = Ok(team_games[1])

C10_Witness ==
    /\ Selected
    /\ game_number = None
    /\ Len(team_games) = 3
    /\ LiveGames = {}
    /\ team_games[1].game_number = 2
    /\ team_games[3].game_number = 1
    /\ Unwrap(game_data) = Ok(team_games[3])

(* C11 as stated: for every non-empty list of games, select_game with       *)
(* Some(n) fails with InvalidGameNumber for every n outside {1, 2}, and     *)
(* fails with GameNumberNotFound when no game of the list has number n.     *)
C11_Original ==
    (/\ Selected
     /\ Len(team_games) >= 1
     /\ game_number # None)
    => /\ Unwrap(game_number) \notin {1, 2} =>
            Unwrap(game_data) = Err("InvalidGameNumber")
       /\ (\A i \in 1..Len(team_games) :
              team_games[i].game_number # Unwrap(game_number)) =>
            Unwrap(game_data) = Err("GameNumberNotFound")

(* C11 as amended: for every list of two or more games, select_game with    *)
(* Some(n) fails with InvalidGameNumber for every n outside {1, 2}, and     *)
(* fails with GameNumberNotFound when n is 1 or 2 and no game of the list   *)
(* has number n; in neither case is a game returned.                        *)
C11_NumberErrors ==
    (/\ Selected
     /\ Len(team_games) >= 2
     /\ game_number # None)
    => /\ Unwrap(game_number) \notin {1, 2} =>
            Unwrap(game_data) = Err("InvalidGameNumber")
       /\ (/\ Unwrap(game_number) \in {1, 2}
           /\ \A i \in 1..Len(team_games) :
                 team_games[i].game_number # Unwrap(game_number)) =>
            Unwrap(game_data) = Err("GameNumberNotFound")

(* a number outside {1, 2} that a game of the list does carry is refused *)
C11_Witness ==
    /\ Selected
    /\ Len(team_games) = 2
    /\ game_number = Some(3)
    /\ team_games[2].game_number = 3
    /\ Unwrap(game_data) = Err("InvalidGameNumber")

(* C12: of two or more games, select_game with Some(n), n in {1, 2} and     *)
(* carried by some game, returns a game whose game_number is n, whatever    *)
(* the order of the list and whichever game is Live.                        *)
C12_NumberOverLive ==
    (/\ Selected
     /\ Len(team_games) >= 2
     /\ game_number # None
     /\ Unwrap(game_number) \in {1, 2}
     /\ \E i \in 1..Len(team_games) :
           team_games[i].game_number = Unwrap(game_number))
    => /\ Unwrap(game_data).ok
       /\ \E i \in 1..Len(team_games) :
             /\ Unwrap(game_data).game = Some(team_games[i])
             /\ team_games[i].game_number = Unwrap(game_number)

(* game 1 is Live and comes first, game 2 is asked for and returned *)
C12_Witness ==
    /\ Selected
    /\ game_number = Some(2)
    /\ Len(team_games) = 2
    /\ team_games[1].game_number = 1
    /\ team_games[1].abstract_game_state = "Live"
    /\ team_games[2].game_number = 2
    /\ team_games[2].abstract_game_state = "Preview"
    /\ Unwrap(game_data) = Ok(team_games[2])

(* C13: of a list of exactly one game, select_game returns that game for    *)
(* every game number: none, 1, 2, one the game does not carry, one outside  *)
(* {1, 2}.                                                                  *)
C13_SingleGame ==
    (/\ Selected
     /\ Len(team_games) = 1)
    => Unwrap(game_data) = Ok(team_games[1])

(* the only game is game 1 and game 3 is asked for *)
C13_Witness ==
    /\ Selected
    /\ Len(team_games) = 1
    /\ team_games[1].game_number = 1
    /\ game_number = Some(3)
    /\ Unwrap(game_data) = Ok(team_games[1])

(* C14: of the empty list, select_game fails with NoGameAvailable for every *)
(* game number, valid or not, and returns no game.                          *)
C14_EmptyList ==
    (/\ Selected
     /\ Len(team_games) = 0)
    => /\ Unwrap(game_data) = Err("NoGameAvailable")
       /\ Unwrap(game_data).game = None

(* the empty list with a game number outside {1, 2} *)
C14_Witness ==
    /\ Selected
    /\ team_games = <<>>
    /\ game_number = Some(0)
    /\ ~Unwrap(game_data).ok
    /\ Unwrap(game_data).error = "NoGameAvailable"

PipeOrder ==
    <<"schedule", "select_game", "contentSearch", "find_best_feed",
      "initSession", "initPlaybackSession", "play">>

GatewayRequests == {"contentSearch", "initSession", "initPlaybackSession"}

(* C8: a stream resolution takes its steps in the order authorize, schedule *)
(* fetch, game selection, content search, feed selection, playback          *)
(* initialisation, player launch, each only after the one before succeeded, *)
(* and sends a media-gateway request only from an Authorized session.       *)
C8_PipelineOrder ==
    /\ Len(plog) <= Len(PipeOrder)
    /\ \A i \in 1..Len(plog) : plog[i].step = PipeOrder[i]
    /\ \A i \in 1..(Len(plog) - 1) : plog[i].outcome = "ok"
    /\ plog # <<>> => session[1].pc = "ok"
    /\ \A i \in 1..Len(plog) :
         plog[i].step \in GatewayRequests =>
           /\ plog[i].state = "Authorized"
           /\ plog[i].bearer # {}
           /\ plog[i].bearer = {tok.access_token : tok \in session[1].okta_tokens}

C8_Witness ==
    /\ pipe.pc = "done"
    /\ Len(plog) = Len(PipeOrder)
    /\ plog[Len(plog)].outcome = "ok"
    /\ trace[1].reqs = RequestOrder

(* find_best_feed has returned. *)
Resolved == found # None

Active(i)   == candidates[i].media_state.state # "OFF"
English(i)  == candidates[i].language = "en"
Exact(i)    == /\ candidates[i].media_state.media_type = req_media
               /\ candidates[i].feed_type = req_feed
National(i) == /\ candidates[i].media_state.media_type = req_media
               /\ candidates[i].feed_type = "NETWORK"
Audio(i)    == /\ candidates[i].media_state.media_type = "AUDIO"
               /\ candidates[i].feed_type = req_feed

Places == 1..Len(candidates)
Least(S, i) == i \in S /\ \A j \in S : i <= j

(* C15 as stated: if a candidate has the requested media type, the          *)
(* requested feed type and a state other than OFF, find_best_feed returns   *)
(* the first such candidate in list order, whatever comes before it.        *)
C15_Original ==
    LET exact == {i \in Places : Exact(i) /\ Active(i)}
    IN  (Resolved /\ exact # {})
        => \E i \in exact : /\ Least(exact, i)
                            /\ Unwrap(found).stream = Some(candidates[i])

(* C15 as amended: if a candidate has the requested media type, the         *)
(* requested feed type, a state other than OFF and the language "en",       *)
(* find_best_feed returns the first such candidate in list order, even when *)
(* candidates of a lower tier come before it.                               *)
C15_ExactMatchFirst ==
    LET exact == {i \in Places : Exact(i) /\ Active(i) /\ English(i)}
    IN  (Resolved /\ exact # {})
        => \E i \in exact : /\ Least(exact, i)
                            /\ Unwrap(found).stream = Some(candidates[i])

(* an active national feed comes before the exact match *)
C15_Witness ==
    /\ Resolved
    /\ req_media = "VIDEO"
    /\ req_feed = "HOME"
    /\ candidates = <<StreamData(1, "NETWORK", "en", "ON", "VIDEO"),
                      StreamData(2, "HOME", "en", "ON", "VIDEO")>>
    /\ Unwrap(found).stream = Some(candidates[2])

(* C16 as stated: if the only candidate is a national broadcast of the      *)
(* requested media type and the requested feed type is Home or Away,        *)
(* find_best_feed returns it, and the second tier selects it.               *)
C16_Original ==
    (/\ Resolved
     /\ Len(candidates) = 1
     /\ National(1)
     /\ req_feed \in {"HOME", "AWAY"})
    => /\ Unwrap(found).stream = Some(candidates[1])
       /\ Unwrap(found).tier = 2

(* C16 as amended: if the only candidate is a national broadcast of the     *)
(* requested media type whose state is not OFF and whose language is "en",  *)
(* and the requested feed type is Home or Away, find_best_feed returns it,  *)
(* and the second tier selects it.                                          *)
C16_NationalFallback ==
    (/\ Resolved
     /\ Len(candidates) = 1
     /\ National(1) /\ Active(1) /\ English(1)
     /\ req_feed \in {"HOME", "AWAY"})
    => /\ Unwrap(found).stream = Some(candidates[1])
       /\ Unwrap(found).tier = 2

C16_Witness ==
    /\ Resolved
    /\ req_media = "VIDEO"
    /\ req_feed = "AWAY"
    /\ candidates = <<StreamData(1, "NETWORK", "en", "ON", "VIDEO")>>
    /\ Unwrap(found) = [stream |-> Some(candidates[1]), tier |-> 2]

(* C17 as stated: if video is requested and the only candidate is an audio  *)
(* feed of the requested feed type, not national, find_best_feed returns    *)
(* it, and the third tier selects it.                                       *)
C17_Original ==
    (/\ Resolved
     /\ req_media = "VIDEO"
     /\ Len(candidates) = 1
     /\ Audio(1)
     /\ candidates[1].feed_type # "NETWORK")
    => /\ Unwrap(found).stream = Some(candidates[1])
       /\ Unwrap(found).tier = 3

(* C17 as amended: if video is requested and the only candidate is an audio *)
(* feed of the requested feed type, not national, whose state is not OFF    *)
(* and whose language is "en", find_best_feed returns it, and the third     *)
(* tier selects it.                                                         *)
C17_AudioFallback ==
    (/\ Resolved
     /\ req_media = "VIDEO"
     /\ Len(candidates) = 1
     /\ Audio(1) /\ Active(1) /\ English(1)
     /\ candidates[1].feed_type # "NETWORK")
    => /\ Unwrap(found).stream = Some(candidates[1])
       /\ Unwrap(found).tier = 3

C17_Witness ==
    /\ Resolved
    /\ req_media = "VIDEO"
    /\ req_feed = "HOME"
    /\ candidates = <<StreamData(1, "HOME", "en", "ON", "AUDIO")>>
    /\ Unwrap(found) = [stream |-> Some(candidates[1]), tier |-> 3]

(* The candidates each tier matches: as the tiers are stated, and with the  *)
(* language "en" asked of the first three.                                  *)
StatedTier(t) ==
    CASE t = 1 -> {i \in Places : Exact(i) /\ Active(i)}
      [] t = 2 -> {i \in Places : National(i) /\ Active(i)}
      [] t = 3 -> {i \in Places : Audio(i) /\ Active(i)}
      [] t = 4 -> {i \in Places : Active(i)}

EnglishTier(t) ==
    IF t = 4 THEN StatedTier(4) ELSE {i \in StatedTier(t) : English(i)}

(* C18 as stated: the first tier, in the order 1, 2, 3, 4, that has a match *)
(* gives the result; in particular, with no match of tier 1, an active      *)
(* national feed of the requested media type and an active audio feed of    *)
(* the requested feed type, the national feed is returned, in either order. *)
C18_Original ==
    Resolved =>
      /\ \A t \in 1..4 :
            (StatedTier(t) # {} /\ \A u \in 1..(t - 1) : StatedTier(u) = {})
            => /\ Unwrap(found).tier = t
               /\ \E i \in StatedTier(t) : /\ Least(StatedTier(t), i)
                                           /\ Unwrap(found).stream = Some(candidates[i])
      /\ (StatedTier(1) = {} /\ StatedTier(2) # {} /\ StatedTier(3) # {})
         => \E i \in StatedTier(2) : Unwrap(found).stream = Some(candidates[i])

(* C18 as amended: with the language "en" asked of a match of tiers 1, 2    *)
(* and 3, the first tier, in the order 1, 2, 3, 4, that has a match gives   *)
(* the result; in particular, with no match of tier 1, an active national   *)
(* feed of the requested media type in "en" and an active audio feed of the *)
(* requested feed type in "en", the national feed is returned, in either    *)
(* order.                                                                   *)
C18_TierOrder ==
    Resolved =>
      /\ \A t \in 1..4 :
            (EnglishTier(t) # {} /\ \A u \in 1..(t - 1) : EnglishTier(u) = {})
            => /\ Unwrap(found).tier = t
               /\ \E i \in EnglishTier(t) : /\ Least(EnglishTier(t), i)
                                            /\ Unwrap(found).stream = Some(candidates[i])
      /\ (EnglishTier(1) = {} /\ EnglishTier(2) # {} /\ EnglishTier(3) # {})
         => \E i \in EnglishTier(2) : Unwrap(found).stream = Some(candidates[i])

(* the audio feed of the requested side comes before the national feed *)
C18_Witness ==
    /\ Resolved
    /\ req_media = "VIDEO"
    /\ req_feed = "HOME"
    /\ candidates = <<StreamData(1, "HOME", "en", "ON", "AUDIO"),
                      StreamData(2, "NETWORK", "en", "ON", "VIDEO")>>
    /\ Unwrap(found) = [stream |-> Some(candidates[2]), tier |-> 2]

(* C19: find_best_feed returns nothing exactly when every candidate is OFF  *)
(* (or there is none); when some candidate is not OFF it returns a          *)
(* candidate that is not OFF, of whatever media type, feed type, language.  *)
C19_NoneIffAllOff ==
    Resolved =>
      /\ Unwrap(found).stream = None <=> \A i \in Places : ~Active(i)
      /\ (\E i \in Places : Active(i))
         => \E i \in Places : /\ Active(i)
                              /\ Unwrap(found).stream = Some(candidates[i])

(* the only active candidate shares nothing with the request *)
C19_Witness ==
    /\ Resolved
    /\ req_media = "VIDEO"
    /\ req_feed = "HOME"
    /\ candidates = <<StreamData(1, "HOME", "en", "OFF", "VIDEO"),
                      StreamData(2, "AWAY", "es", "ON", "AUDIO")>>
    /\ Unwrap(found).stream = Some(candidates[2])

(* The steps of the given name that the stream resolution has taken. *)
Taken(name) == {i \in 1..Len(plog) : plog[i].step = name}

(* the side of the requested team in the selected game *)
TeamSide ==
    IF Unwrap(pipe.game_data).home = Unwrap(pipe.team) THEN "HOME" ELSE "AWAY"

(* C20: the feed type handed to find_best_feed is the caller's preference   *)
(* when there is one, and otherwise HOME if the selected game's home team   *)
(* is the requested team and AWAY if not; it is fixed by the game selection *)
(* step, before the content search and the feed resolution, and neither of  *)
(* these changes it.                                                        *)
C20_FeedTypeFixed ==
    /\ [](/\ pipe.game_data # None =>
               pipe.feed_type = (IF pipe.feed_pref # None
                                 THEN pipe.feed_pref ELSE Some(TeamSide))
          /\ pipe.feed_type # None <=>
               \E i \in Taken("select_game") : plog[i].outcome = "ok"
          /\ Taken("contentSearch") # {} => pipe.feed_type # None
          /\ pipe.asked_feed # None <=> Taken("find_best_feed") # {}
          /\ pipe.asked_feed # None => pipe.asked_feed = pipe.feed_type)
    /\ [][pipe.feed_type # None => pipe'.feed_type = pipe.feed_type]_vars

(* no preference, the requested team is the visiting team, the game is      *)
(* selected and the content search has not been sent                        *)
C20_Witness ==
    /\ pipe.pc = "content_search"
    /\ pipe.feed_pref = None
    /\ Unwrap(pipe.game_data).away = Unwrap(pipe.team)
    /\ pipe.feed_type = Some("AWAY")
    /\ Taken("contentSearch") = {}


(* the schedule call has returned and its request had been answered *)
Fetched == fetch.pc = "done" /\ fetch.dates # None

(* C21: fetch_schedule_by_date makes one schedule request and returns None  *)
(* for a response without date entries, the entry for a response with one,  *)
(* and an UnexpectedApiShape error, no schedule, for two or more;           *)
(* fetch_schedule_by_range returns None for no entries and otherwise all    *)
(* entries in response order.                                               *)
C21_FetchCardinality ==
    /\ fetch.pc = "done" => fetch.requests = 1
    /\ fetch.requests <= 1
    /\ (Fetched /\ fetch.fn = "fetch_schedule_by_date") =>
         LET dates == Unwrap(fetch.dates)
         IN  /\ Len(dates) = 0 => fetch.error = "none" /\ fetch.result = None
             /\ Len(dates) = 1 => fetch.error = "none" /\ fetch.result = Some(dates[1])
             /\ Len(dates) >= 2 => /\ fetch.error = "UnexpectedApiShape"
                                   /\ fetch.result = None
    /\ (Fetched /\ fetch.fn = "fetch_schedule_by_range") =>
         LET dates == Unwrap(fetch.dates)
         IN  /\ fetch.error = "none"
             /\ Len(dates) = 0 => fetch.result = None
             /\ Len(dates) >= 1 => fetch.result = Some(dates)

(* two date entries for a single date *)
C21_Witness ==
    /\ Fetched
    /\ fetch.fn = "fetch_schedule_by_date"
    /\ Len(Unwrap(fetch.dates)) = 2
    /\ Unwrap(fetch.dates)[1] # Unwrap(fetch.dates)[2]
    /\ fetch.error = "UnexpectedApiShape"
    /\ fetch.result = None
    /\ fetch.requests = 1


(* find_team_games has returned. *)
TeamGamesFound == team_query # None /\ Unwrap(team_query).out # None

(* the places in the day's schedule of the games the team plays in *)
TeamPlaces ==
    LET q == Unwrap(team_query)
    IN  {i \in 1..Len(q.day.games) :
           q.day.games[i].home = q.team \/ q.day.games[i].away = q.team}

(* C22: find_team_games returns None when the team plays in no game of the  *)
(* schedule, and otherwise exactly the games in which the team is the home  *)
(* or the away team, in schedule order; it never returns an empty list.     *)
C22_TeamGamesInOrder ==
    TeamGamesFound =>
      LET q   == Unwrap(team_query)
          res == Unwrap(q.out)
      IN  /\ TeamPlaces = {} => res = None
          /\ res # Some(<<>>)
          /\ TeamPlaces # {} =>
               /\ res # None
               /\ Len(Unwrap(res)) = Cardinality(TeamPlaces)
               /\ \A i \in TeamPlaces :
                     Unwrap(res)[Cardinality({j \in TeamPlaces : j <= i})] = q.day.games[i]

(* the team is at home in the first game of the day and away in the second *)
C22_Witness ==
    /\ TeamGamesFound
    /\ LET q == Unwrap(team_query)
       IN  /\ Len(q.day.games) = 2
           /\ q.day.games[1].home = q.team
           /\ q.day.games[2].away = q.team
           /\ Unwrap(q.out) = Some(q.day.games)


(* how a step ends that found nothing to go on with *)
NoData == {"no_schedule", "no_games", "no_streams"}

(* C23: a stream resolution that finds no schedule entry for the date, no   *)
(* game of the team on the day, or no feed, ends there and successfully;    *)
(* in the first two cases it has sent no contentSearch request, and in all  *)
(* three no initSession or initPlaybackSession request, and it has not      *)
(* launched the player.                                                     *)
C23_NoDataIsNotAnError ==
    \A i \in 1..Len(plog) :
      plog[i].outcome \in NoData =>
        /\ i = Len(plog)
        /\ pipe.pc = "done"
        /\ pipe.error = "none"
        /\ plog[i].outcome \in {"no_schedule", "no_games"} <=> plog[i].step = "schedule"
        /\ plog[i].outcome = "no_streams" <=> plog[i].step = "find_best_feed"
        /\ plog[i].step = "schedule" => Taken("contentSearch") = {}
        /\ Taken("initSession") = {}
        /\ Taken("initPlaybackSession") = {}
        /\ Taken("play") = {}

(* the content search was answered and find_best_feed found no feed *)
C23_Witness ==
    /\ pipe.pc = "done"
    /\ pipe.error = "none"
    /\ Len(plog) = 4
    /\ plog[3] = Step("contentSearch", "ok")
    /\ plog[4].outcome = "no_streams"
    /\ pipe.stream = None

(* a schedule without an entry for the date, and one without a game of the  *)
(* team, end the resolution at its first step                               *)
C23_NoScheduleReached == Len(plog) = 1 /\ plog[1].outcome = "no_schedule" /\ pipe.pc = "done"
C23_NoGamesReached    == Len(plog) = 1 /\ plog[1].outcome = "no_games" /\ pipe.pc = "done"


(* to_mode has returned. *)
ModeGiven == cli # None /\ Unwrap(cli).mode # None

(* C24: to_mode gives Init for --init; otherwise PlayRecap for --recap,     *)
(* with the team of --team if there is one; otherwise PlayCondensedGame for *)
(* --team with --condensed; otherwise PlayStream of the team for --team;    *)
(* otherwise RangeSchedule for --days; otherwise DaySchedule, of today when *)
(* no date flag is given.                                                   *)
C24_ModePrecedence ==
    ModeGiven =>
      LET c == Unwrap(cli).args
          m == Unwrap(Unwrap(cli).mode)
      IN  CASE c.init  -> m.mode = "Init"
            [] ~c.init /\ c.recap ->
                 m.mode = "PlayRecap" /\ m.team_code = c.team
            [] ~c.init /\ ~c.recap /\ c.team # None /\ c.condensed ->
                 m.mode = "PlayCondensedGame" /\ m.team_code = Unwrap(c.team)
            [] ~c.init /\ ~c.recap /\ c.team # None /\ ~c.condensed ->
                 m.mode = "PlayStream" /\ m.team_code = Unwrap(c.team)
            [] ~c.init /\ ~c.recap /\ c.team = None /\ c.days # None ->
                 m.mode = "RangeSchedule"
            [] OTHER ->
                 /\ m.mode = "DaySchedule"
                 /\ (c.date = None /\ ~c.tomorrow /\ ~c.yesterday) => m.date = Today

(* --recap --team tor is a recap of that team, not its stream *)
C24_Witness ==
    /\ ModeGiven
    /\ LET c == Unwrap(cli).args
       IN  /\ ~c.init /\ c.recap
           /\ c.team = Some("tor")
           /\ c.feed # None
           /\ Unwrap(Unwrap(cli).mode).mode = "PlayRecap"
           /\ Unwrap(Unwrap(cli).mode).team_code = Some("tor")


(* from_str has returned. *)
DateParsed == date_in # None /\ Unwrap(date_in).out # None

AllDigits(t) == \A i \in 1..Len(t) : t[i] \in Digits

(* A field as a pattern shows it, YYYY, MM or DD; or as it may also be      *)
(* written: white space first, then one to four digits of a year or a sign  *)
(* and digits, one or two digits of a month or a day.                       *)
FieldOK(t, isYear, strict) ==
    IF strict
    THEN AllDigits(t) /\ Len(t) = (IF isYear THEN 4 ELSE 2)
    ELSE \E k \in 0..Len(t) :
           LET u == SubSeq(t, k + 1, Len(t))
           IN  /\ \A i \in 1..k : t[i] = " "
               /\ u # <<>>
               /\ IF isYear /\ u[1] \in {"+", "-"}
                  THEN Len(u) >= 2 /\ AllDigits(Tail(u))
                  ELSE AllDigits(u) /\ Len(u) <= (IF isYear THEN 4 ELSE 2)

FieldVal(t) ==
    LET IsDigit(c) == c \in Digits
        v == Value(SelectSeq(t, IsDigit))
    IN  IF \E i \in 1..Len(t) : t[i] = "-" THEN 0 - v ELSE v

(* The three formats in the order YYYY-MM-DD, MM-DD-YYYY, MM/DD/YYYY: the   *)
(* separator, and the places of year, month and day among the fields.       *)
FormatSep   == <<"-", "-", "/">>
FormatOrder == << <<1, 2, 3>>, <<3, 1, 2>>, <<3, 1, 2>> >>

(* the year, month and day that string s gives when taken in format k *)
Shapes(s, k, strict) ==
    {ymd \in UNION
       {LET f == <<SubSeq(s, 1, i - 1), SubSeq(s, i + 1, j - 1), SubSeq(s, j + 1, Len(s))>>
            o == FormatOrder[k]
        IN  IF /\ s[i] = FormatSep[k]
               /\ s[j] = FormatSep[k]
               /\ FieldOK(f[o[1]], TRUE, strict)
               /\ FieldOK(f[o[2]], FALSE, strict)
               /\ FieldOK(f[o[3]], FALSE, strict)
            THEN {<<FieldVal(f[o[1]]), FieldVal(f[o[2]]), FieldVal(f[o[3]])>>}
            ELSE {}
          : i \in 1..Len(s), j \in 1..Len(s)} : TRUE}

Dates(s, k, strict) ==
    {NaiveDate(ymd[1], ymd[2], ymd[3]) :
       ymd \in {x \in Shapes(s, k, strict) : IsDate(x[1], x[2], x[3])}}

DateRule(strict) ==
    DateParsed =>
      LET s   == Unwrap(date_in).s
          out == Unwrap(Unwrap(date_in).out)
      IN  /\ \A k \in 1..3 : \A d \in Dates(s, k, TRUE) :
                /\ d.year >= 2022 => out = [ok |-> TRUE, date |-> Some(d), error |-> "none"]
                /\ d.year < 2022 => ~out.ok /\ out.date = None
          /\ (\A k \in 1..3 : Shapes(s, k, strict) = {}) => ~out.ok /\ out.date = None

(* C25 as stated: from_str gives the calendar date of a string written as   *)
(* YYYY-MM-DD, MM-DD-YYYY or MM/DD/YYYY, an error when the year of that     *)
(* date is before 2022, and an error for every string that has none of the  *)
(* three forms.                                                             *)
C25_Original == DateRule(TRUE)

(* C25 as amended: from_str gives the calendar date of a string written as  *)
(* YYYY-MM-DD, MM-DD-YYYY or MM/DD/YYYY, an error when the year of that     *)
(* date is before 2022, and an error for every string that has none of the  *)
(* three forms even when a year may have one to four digits or a sign, a    *)
(* month and a day one or two digits, and a field white space before it.    *)
C25_DateFormats ==
    /\ DateRule(FALSE)
    /\ DateParsed =>
         LET s   == Unwrap(date_in).s
             out == Unwrap(Unwrap(date_in).out)
         IN  /\ out.ok => \E k \in 1..3 : out.date \subseteq Dates(s, k, FALSE)
             /\ \A k \in 1..3 : \A d \in Dates(s, k, FALSE) :
                   IF d.year >= 2022 THEN out.date = Some(d) ELSE ~out.ok

(* 10/02/2024 is the second of October 2024 *)
C25_Witness ==
    /\ DateParsed
    /\ Unwrap(date_in).s = <<"1", "0", "/", "0", "2", "/", "2", "0", "2", "4">>
    /\ Unwrap(Unwrap(date_in).out) =
         [ok |-> TRUE, date |-> Some(NaiveDate(2024, 10, 2)), error |-> "none"]

(* 2021-10-02 is too old, in whichever of the forms *)
C25_TooOldReached ==
    /\ DateParsed
    /\ Unwrap(date_in).s = <<"2", "0", "2", "1", "-", "1", "0", "-", "0", "2">>
    /\ Unwrap(Unwrap(date_in).out).error = "too_old"


(* the requests of an operation that the gateway has seen, by their place *)
Asked(op) == {i \in 1..Len(gateway.log) : gateway.log[i].op = op}

(* C26: every call of init_playback_session sends one initSession request   *)
(* and, only if that succeeded, right after it its initPlaybackSession      *)
(* request with the session id and device id of that response; no two       *)
(* calls send the same pair.                                                *)
C26_FreshSessionPerCall ==
    /\ \A i \in Asked("initPlaybackSession") :
         /\ i > 1
         /\ gateway.log[i - 1].op = "initSession"
         /\ gateway.log[i - 1].call = gateway.log[i].call
         /\ gateway.log[i - 1].outcome = "ok"
         /\ gateway.log[i].ids # None
         /\ gateway.log[i].ids = gateway.log[i - 1].ids
    /\ \A c \in 1..gateway.calls :
         /\ Cardinality({i \in Asked("initSession") : gateway.log[i].call = c}) <= 1
         /\ Cardinality({i \in Asked("initPlaybackSession") : gateway.log[i].call = c}) <= 1
         /\ (gateway.pc = "idle" \/ c < gateway.calls) =>
              \E i \in Asked("initSession") : gateway.log[i].call = c
    /\ \A i, j \in Asked("initPlaybackSession") :
         i # j => gateway.log[i].ids # gateway.log[j].ids
    /\ \A i \in Asked("initSession") :
         gateway.log[i].outcome # "ok" =>
           \A j \in Asked("initPlaybackSession") : gateway.log[j].call # gateway.log[i].call

(* two calls, each with its own initSession and its own pair of ids *)
C26_Witness ==
    /\ gateway.pc = "idle"
    /\ gateway.calls = 2
    /\ Len(gateway.log) = 4
    /\ gateway.log[2].op = "initPlaybackSession"
    /\ gateway.log[4].op = "initPlaybackSession"
    /\ gateway.log[2].ids = gateway.log[1].ids
    /\ gateway.log[4].ids = gateway.log[3].ids
    /\ gateway.log[2].ids # gateway.log[4].ids

(* an initSession request that failed ends the call *)
C26_FailedInitReached ==
    /\ gateway.pc = "idle"
    /\ gateway.calls = 1
    /\ Len(gateway.log) = 1
    /\ gateway.log[1].outcome = "status"


----------------------------------------------------------------------------
(* Concurrent invocations on one token cache file. *)
BothFinished == \A r \in Racers : session[r].pc \in Ended

BothSucceeded == \A r \in Racers : session[r].pc = "ok"

SomeoneWrote == \E r \in Racers : trace[r].written # <<>>

CompleteToken(file) == file.k = "json" /\ ~file.expires_at.null

ReadsOnceWritesOnce ==
    \A r \in Racers : trace[r].reads <= 1 /\ Len(trace[r].written) <= 1

WritesNow(r) == Len(trace'[r].written) > Len(trace[r].written)

(* C27 as stated: when two invocations run authorize at once on the same   *)
(* cache file, each reads the file once and writes it at most once; every  *)
(* write leaves in the file the complete token of the invocation that      *)
(* wrote, expires_at set, so that after both have finished the file holds  *)
(* the token of the last writer; and no invocation reads a file that is    *)
(* partially written or mixed.  Writes that fail are left aside.         *)
C27_Original ==
    /\ [](ReadsOnceWritesOnce)
    /\ []((BothSucceeded /\ SomeoneWrote) => CompleteToken(cache))
    /\ [](\A r \in Racers :
            trace[r].cache0 # None => Unwrap(trace[r].cache0) \notin PartialFiles)
    /\ [][\A r \in Racers :
            (WritesNow(r) /\ session'[r].pc = "ok") =>
                /\ cache' = Serialize(Unwrap(session[r].okta_tokens))
                /\ CompleteToken(cache')]_vars

(* The part of C27 that the code keeps: one read and at most one write. *)
C27_OneReadOneWrite == ReadsOnceWritesOnce

C27_ReadEmptied ==
    \E r \in Racers :
        /\ trace[r].cache0 # None
        /\ Unwrap(trace[r].cache0) \in {Truncated(q) : q \in Racers \ {r}}
        /\ session[r].pc = "err"
        /\ session[r].error = "load"

C27_LeftMixed ==
    /\ BothSucceeded
    /\ cache \in PartialFiles


----------------------------------------------------------------------------
FoundUnreadable(r) ==
    /\ trace[r].cache0 # None
    /\ Unwrap(trace[r].cache0).k = "garbage"

(* C29: an invocation of authorize that finds the cache file present but   *)
(* unreadable or not a token ends in the error of load, sends no request   *)
(* and writes nothing, and the file stays what it was: the unreadable file *)
(* is not taken for a missing one.                                         *)
C29_UnreadableCacheIsAnError ==
    \A r \in Runs :
        FoundUnreadable(r) =>
            /\ session[r].pc = "err"
            /\ session[r].error = "load"
            /\ session[r].state = "Unauthenticated"
            /\ trace[r].reqs = <<>>
            /\ trace[r].written = <<>>
            /\ cache = Unwrap(trace[r].cache0)

C29_Witness ==
    \E r \in Runs :
        /\ FoundUnreadable(r)
        /\ session[r].pc = "err"
        /\ r > 1
        /\ FoundUnreadable(r - 1)


----------------------------------------------------------------------------
(* The invocation is in an arm of the match other than PlayStream. *)
OtherMode ==
    /\ run # None
    /\ Unwrap(run).mode \in {"Init", "DaySchedule", "RangeSchedule",
                             "PlayRecap", "PlayCondensedGame"}

(* A schedule fetch whose request the endpoint answered did not fail. *)
AnsweredFetchesSucceed(rec) ==
    rec.error = "schedule" =>
        LET last == rec.stats[Len(rec.stats)]
        IN  FetchFails(last.fn, last.outcome)

(* C28: in the Init, DaySchedule, RangeSchedule, PlayRecap and             *)
(* PlayCondensedGame modes the program sends nothing to the identity       *)
(* provider and neither reads nor writes the token cache file; every       *)
(* schedule request there is made by a session in the Unauthenticated      *)
(* state that holds no token, and the fetch fails only when the request    *)
(* or its answer does.                                                     *)
C28_OnlyPlayStreamAuthorizes ==
    OtherMode =>
        /\ trace[1].reqs = <<>>
        /\ trace[1].reads = 0
        /\ trace[1].written = <<>>
        /\ cache = Unwrap(run).cache0
        /\ session[1] = NewSession
        /\ \A i \in 1..Len(Unwrap(run).stats) :
             /\ Unwrap(run).stats[i].state = "Unauthenticated"
             /\ ~Unwrap(run).stats[i].token
        /\ AnsweredFetchesSucceed(Unwrap(run))

C28_Witness ==
    /\ OtherMode
    /\ Unwrap(run).mode = "PlayRecap"
    /\ ~Unwrap(run).team
    /\ Unwrap(run).pc = "ok"
    /\ Len(Unwrap(run).stats) = 1 + MaxDayGames
    /\ Unwrap(run).played = MaxDayGames

C28_DayScheduleReached ==
    /\ OtherMode
    /\ Unwrap(run).mode = "DaySchedule"
    /\ Unwrap(run).pc = "ok"
    /\ Unwrap(run).stats # <<>>

C28_PlayStreamAuthorized ==
    /\ run # None
    /\ Unwrap(run).mode = "PlayStream"
    /\ Unwrap(run).pc = "ok"
    /\ trace[1].reads = 1
    /\ trace[1].written # <<>>
    /\ Unwrap(run).played = 1


----------------------------------------------------------------------------
Doubleheader(games) ==
    \E i, j \in 1..Len(games) : i < j /\ games[i].home = games[j].home

(* C30 as stated: in recap mode without a team, the url looked up and      *)
(* handed to the player for a list entry is the recap of the game of that  *)
(* entry, doubleheaders included: no recap is handed over twice, and when  *)
(* the loop has ended every listed game that has a recap has had it played.*)
C30_Original ==
    recap # None =>
        LET rec == Unwrap(recap)
        IN  /\ \A i \in 1..Len(rec.played) :
                 rec.played[i].url = find_highlight(rec.games[rec.played[i].entry])
            /\ \A i, j \in 1..Len(rec.played) :
                 (i # j /\ rec.played[i].url # None) => rec.played[i].url # rec.played[j].url
            /\ rec.pc = "ok" =>
                 \A g \in 1..Len(rec.games) :
                    find_highlight(rec.games[g]) # None =>
                       \E i \in 1..Len(rec.played) :
                          rec.played[i].url = find_highlight(rec.games[g])

(* both games of a doubleheader are over, and the loop has ended well:    *)
(* the recap of game 1 went to the player twice, that of game 2 never     *)
C30_SameRecapTwice ==
    /\ recap # None
    /\ LET rec == Unwrap(recap)
       IN  /\ rec.pc = "ok"
           /\ rec.game_number = None
           /\ Len(rec.games) = 2
           /\ Doubleheader(rec.games)
           /\ \A g \in 1..2 : rec.games[g].abstract_game_state = "Final"
           /\ \A i \in 1..2 : rec.played[i].url = Some(RecapOf(rec.games[1]))

(* without a doubleheader every entry gets the recap of its own game *)
C30_SingleGamesRight ==
    (recap # None /\ ~Doubleheader(Unwrap(recap).games)) =>
        \A i \in 1..Len(Unwrap(recap).played) :
            Unwrap(recap).played[i].url =
                find_highlight(Unwrap(recap).games[Unwrap(recap).played[i].entry])

====
